---- MODULE Spec2Model ----
(***************************************************************************)
(* A model of go-platon's request signing and validation engine:          *)
(* platon.Request with its builders, SignAndPrepare, validateByHashType,  *)
(* validateSplitRules and ToMap, go_platon.Request.GetSplitRules and the  *)
(* client's Credit, and the minor-unit amount formatting and parsing.     *)
(*                                                                         *)
(* Conventions.  A Go string is a string, taken apart with Head, Tail,    *)
(* SubSeq and Len and put together with \o.  A Go *string is <<>> for     *)
(* nil and <<s>> for a pointer to s.  A Go int as the amounts use it is   *)
(* a 64-bit two's complement word, kept as a little-endian sequence of    *)
(* 16-bit limbs without leading zero limbs.  A float64 is a record        *)
(* [neg, m, e] standing for m * 2^e with 2^52 <= m < 2^53, or m = 0.  An  *)
(* MD5 digest is kept as "md5:" \o s, s the string that was hashed: the   *)
(* model takes MD5 to be injective.                                       *)
(***************************************************************************)
EXTENDS Integers, Sequences, FiniteSets, TLC

VARIABLES r, ret, signed, budget, out, req, res, amt, form, args, call, net, dry

vars == <<r, ret, signed, budget, out, req, res, amt, form, args, call, net, dry>>

(***************************************************************************)
(* Strings                                                                 *)
(***************************************************************************)
LowerLetters == <<"a","b","c","d","e","f","g","h","i","j","k","l","m",
                  "n","o","p","q","r","s","t","u","v","w","x","y","z">>

UpperLetters == <<"A","B","C","D","E","F","G","H","I","J","K","L","M",
                  "N","O","P","Q","R","S","T","U","V","W","X","Y","Z">>

Digits == <<"0","1","2","3","4","5","6","7","8","9">>

IsDigit(c) == \E i \in 1..10 : Digits[i] = c

DigitValue(c) == (CHOOSE i \in 1..10 : Digits[i] = c) - 1

IsLetter(c) == \E i \in 1..26 : LowerLetters[i] = c \/ UpperLetters[i] = c

IsSpace(c) == c = " "

\* strings.ToUpper, one character
ToUpperChar(c) ==
    IF \E i \in 1..26 : LowerLetters[i] = c
    THEN UpperLetters[CHOOSE i \in 1..26 : LowerLetters[i] = c]
    ELSE c

\* the i-th character of s
At(s, i) == SubSeq(s, i, i)

\* strings.ToUpper
RECURSIVE ToUpper(_)
ToUpper(s) ==
    IF Len(s) <= 1 THEN ToUpperChar(s)
    ELSE ToUpper(SubSeq(s, 1, Len(s) \div 2)) \o ToUpper(SubSeq(s, Len(s) \div 2 + 1, Len(s)))

\* reverseString: the characters (runes) of s in reverse order
RECURSIVE reverseString(_)
reverseString(s) ==
    IF Len(s) <= 1 THEN s
    ELSE reverseString(SubSeq(s, Len(s) \div 2 + 1, Len(s)))
             \o reverseString(SubSeq(s, 1, Len(s) \div 2))

RECURSIVE TrimLeft(_)
TrimLeft(s) == IF s # "" /\ IsSpace(Head(s)) THEN TrimLeft(Tail(s)) ELSE s

\* strings.TrimSpace
TrimSpace(s) == reverseString(TrimLeft(reverseString(TrimLeft(s))))

\* md5.Sum + hex.EncodeToString
MD5Hex(s) == "md5:" \o s

\* F of the value of e, e evaluated once
Let1(e, F(_)) == CHOOSE y \in {F(v) : v \in {e}} : TRUE

\* pointers
Nil == <<>>

Ref(s) == <<s>>

Deref(p) == p[1]

(***************************************************************************)
(* 64-bit integers and float64                                             *)
(***************************************************************************)
LimbBase == 2^16

RECURSIVE Norm(_)
Norm(x) == IF x # <<>> /\ x[Len(x)] = 0 THEN Norm(SubSeq(x, 1, Len(x) - 1)) ELSE x

RECURSIVE FromInt(_)
FromInt(n) == IF n = 0 THEN <<>> ELSE <<n % LimbBase>> \o FromInt(n \div LimbBase)

\* x * k + c for a small k (k <= 2^14)
RECURSIVE MulC(_, _, _)
MulC(x, k, c) ==
    IF x = <<>> THEN FromInt(c)
    ELSE LET t == Head(x) * k + c
         IN  <<t % LimbBase>> \o MulC(Tail(x), k, t \div LimbBase)

MulSmall(x, k) == Norm(MulC(x, k, 0))

AddSmall(x, c) == Norm(MulC(x, 1, c))

RECURSIVE AddC(_, _, _)
AddC(x, y, c) ==
    IF x = <<>> THEN MulC(y, 1, c)
    ELSE IF y = <<>> THEN MulC(x, 1, c)
    ELSE LET t == Head(x) + Head(y) + c
         IN  <<t % LimbBase>> \o AddC(Tail(x), Tail(y), t \div LimbBase)

Add(x, y) == Norm(AddC(x, y, 0))

\* x mod d and x div d for a small d (d <= 2^14), most significant limb first
RECURSIVE ModRec(_, _, _, _)
ModRec(x, d, i, rem) ==
    IF i = 0 THEN rem ELSE ModRec(x, d, i - 1, (rem * LimbBase + x[i]) % d)

ModSmall(x, d) == ModRec(x, d, Len(x), 0)

RECURSIVE QuoRec(_, _, _, _)
QuoRec(x, d, i, rem) ==
    IF i = 0 THEN <<>>
    ELSE QuoRec(x, d, i - 1, (rem * LimbBase + x[i]) % d)
         \o <<(rem * LimbBase + x[i]) \div d>>

DivSmall(x, d) == Norm(QuoRec(x, d, Len(x), 0))

RECURSIVE ShiftL(_, _)
ShiftL(x, s) ==
    IF x = <<>> \/ s = 0 THEN x
    ELSE IF s >= 16 THEN <<0>> \o ShiftL(x, s - 16)
    ELSE IF s >= 8 THEN ShiftL(MulSmall(x, 2^8), s - 8)
    ELSE MulSmall(x, 2^s)

RECURSIVE ShiftR(_, _)
ShiftR(x, s) ==
    IF x = <<>> \/ s = 0 THEN x
    ELSE IF s >= 16 THEN ShiftR(Tail(x), s - 16)
    ELSE IF s >= 8 THEN ShiftR(DivSmall(x, 2^8), s - 8)
    ELSE DivSmall(x, 2^s)

\* x mod 2^s
RECURSIVE LowBitsRec(_, _)
LowBitsRec(x, s) ==
    IF x = <<>> \/ s = 0 THEN <<>>
    ELSE IF s >= 16 THEN <<Head(x)>> \o LowBitsRec(Tail(x), s - 16)
    ELSE <<Head(x) % (2^s)>>

LowBits(x, s) == Norm(LowBitsRec(x, s))

RECURSIVE LimbBits(_)
LimbBits(n) == IF n = 0 THEN 0 ELSE 1 + LimbBits(n \div 2)

BitLen(x) == IF x = <<>> THEN 0 ELSE 16 * (Len(x) - 1) + LimbBits(x[Len(x)])

\* -1, 0, 1 as x <, =, > y (both without leading zero limbs)
RECURSIVE CmpRec(_, _, _)
CmpRec(x, y, i) ==
    IF i = 0 THEN 0
    ELSE IF x[i] < y[i] THEN -1
    ELSE IF x[i] > y[i] THEN 1
    ELSE CmpRec(x, y, i - 1)

Cmp(x, y) ==
    IF Len(x) < Len(y) THEN -1
    ELSE IF Len(x) > Len(y) THEN 1
    ELSE CmpRec(x, y, Len(x))

IsOdd(x) == x # <<>> /\ x[1] % 2 = 1

\* n / (d * 2^k) rounded to the nearest integer, ties to even
DivRound(n, d, k) ==
    Let1(DivSmall(n, d), LAMBDA q1 :
      Let1(ShiftR(q1, k), LAMBDA fl :
        Let1(Cmp(AddSmall(MulSmall(LowBits(q1, k), 2 * d), 2 * ModSmall(n, d)),
                 ShiftL(FromInt(d), k)), LAMBDA c :
          IF c > 0 \/ (c = 0 /\ IsOdd(fl)) THEN AddSmall(fl, 1) ELSE fl)))

\* Go int: the low 64 bits, read as two's complement
Wrap64(x) == Norm(SubSeq(x, 1, IF Len(x) < 4 THEN Len(x) ELSE 4))

IsNeg64(x) == Len(x) = 4 /\ x[4] >= 2^15

IsPos64(x) == x # <<>> /\ ~IsNeg64(x)

Neg64(x) ==
    LET p == [i \in 1..4 |-> IF i <= Len(x) THEN x[i] ELSE 0]
        c == [i \in 1..4 |-> LimbBase - 1 - p[i]]
    IN  Wrap64(MulC(c, 1, 1))

Abs64(x) == IF IsNeg64(x) THEN Neg64(x) ELSE x

Add64(x, y) == Wrap64(Add(x, y))

\* x < y as signed 64-bit integers
Less64(x, y) ==
    IF IsNeg64(x) # IsNeg64(y) THEN IsNeg64(x) ELSE Cmp(x, y) < 0

\* the float64 nearest to n / d (ties to even), n > 0
RoundRatio(n, d) ==
    Let1(BitLen(DivSmall(ShiftL(n, 64), d)) - 64 - 53, LAMBDA e :
      Let1(DivRound(ShiftL(n, IF e >= 0 THEN 0 ELSE -e), d, IF e >= 0 THEN e ELSE 0),
           LAMBDA m0 :
             IF BitLen(m0) = 54 THEN [m |-> ShiftR(m0, 1), e |-> e + 1]
             ELSE [m |-> m0, e |-> e]))

\* float64(a) for a Go int a
Float64FromInt(a) ==
    IF a = <<>> THEN [neg |-> FALSE, m |-> <<>>, e |-> 0]
    ELSE Let1(RoundRatio(Abs64(a), 1), LAMBDA y :
             [neg |-> IsNeg64(a), m |-> y.m, e |-> y.e])

\* x / d in float64 for a small integer d that float64 holds exactly
FloatDiv(x, d) ==
    IF x.m = <<>> THEN x
    ELSE Let1(RoundRatio(x.m, d), LAMBDA y :
             [neg |-> x.neg, m |-> y.m, e |-> y.e + x.e])

RECURSIVE ToDigits(_)
ToDigits(x) ==
    IF x = <<>> THEN ""
    ELSE ToDigits(DivSmall(x, 10)) \o Digits[ModSmall(x, 10) + 1]

\* fmt.Sprintf("%.2f", x): the exact value of x rounded to two decimals, ties to even
FormatF2(x) ==
    Let1(ToDigits(IF x.e >= 0 THEN ShiftL(MulSmall(x.m, 100), x.e)
                  ELSE DivRound(MulSmall(x.m, 100), 1, -x.e)), LAMBDA d :
      Let1(IF Len(d) >= 3 THEN d ELSE SubSeq("000", 1, 3 - Len(d)) \o d, LAMBDA p :
        (IF x.neg THEN "-" ELSE "")
        \o SubSeq(p, 1, Len(p) - 2) \o "." \o SubSeq(p, Len(p) - 1, Len(p))))

\* fmt.Sprintf("%.2f", float64(amount)/100)
FormatMinorUnits(amount) ==
    Let1(Float64FromInt(amount), LAMBDA f : Let1(FloatDiv(f, 100), LAMBDA x : FormatF2(x)))

RECURSIVE DigitsToNat(_, _)
DigitsToNat(s, acc) ==
    IF s = "" \/ BitLen(acc) > 64 THEN acc   \* the loop stops at a range error
    ELSE DigitsToNat(Tail(s), AddSmall(MulSmall(acc, 10), DigitValue(Head(s))))

\* strconv.Atoi: [ok, v]
Atoi(s) ==
    LET neg  == s # "" /\ Head(s) = "-"
        body == IF s # "" /\ Head(s) \in {"+", "-"} THEN Tail(s) ELSE s
    IN  IF body = "" \/ \E i \in 1..Len(body) : ~IsDigit(At(body, i))
        THEN [ok |-> FALSE, v |-> <<>>]
        ELSE Let1(DigitsToNat(body, <<>>), LAMBDA mag :
               IF BitLen(mag) <= 63 \/ (neg /\ mag = <<0, 0, 0, 2^15>>)
               THEN [ok |-> TRUE, v |-> IF neg THEN Neg64(mag) ELSE mag]
               ELSE [ok |-> FALSE, v |-> <<>>])

\* the index of the first "." of s, 0 when there is none
RECURSIVE IndexDot(_, _)
IndexDot(s, i) ==
    IF i > Len(s) THEN 0 ELSE IF At(s, i) = "." THEN i ELSE IndexDot(s, i + 1)

\* parseOrderAmountMinorUnits: [err, v]
parseOrderAmountMinorUnits(amount) ==
    Let1(IndexDot(amount, 1), LAMBDA dot :
      IF dot = 0 THEN [err |-> TRUE, v |-> <<>>]
      ELSE Let1(<<Atoi(SubSeq(amount, 1, dot - 1)), Atoi(SubSeq(amount, dot + 1, Len(amount)))>>,
                LAMBDA parts :   \* major, minor
                  IF ~parts[1].ok THEN [err |-> TRUE, v |-> <<>>]
                  ELSE IF ~parts[2].ok THEN [err |-> TRUE, v |-> <<>>]
                  ELSE [err |-> FALSE,
                        v |-> Add64(Wrap64(MulSmall(parts[1].v, 100)), parts[2].v)]))

\* orderAmountRe: ^[0-9]+\.[0-9]{2}$
orderAmountRe(s) ==
    /\ Len(s) >= 4
    /\ At(s, Len(s) - 2) = "."
    /\ \A i \in 1..Len(s) : i # Len(s) - 2 => IsDigit(At(s, i))

(***************************************************************************)
(* platon.Request and its builders.  The record keeps the fields that     *)
(* signing and validateByHashType read; the wire-only fields              *)
(* customer_wallet, recurring_first_trans_id, async, ext1, ext2 and        *)
(* ext4..ext10 are left out.                                              *)
(***************************************************************************)
EmptyRules == [id \in {} |-> ""]

\* the zero Request with its Action set
NewRequest(action) ==
    [ Action |-> action, ClientKey |-> "", Hash |-> "", ChannelId |-> "",
      PayerIp |-> Nil, TermUrl3ds |-> Nil, OrderID |-> Nil, OrderAmount |-> "",
      OrderCurrency |-> "", SubmerchantID |-> Nil, OrderDescription |-> Nil,
      PaymentToken |-> Nil, PayerEmail |-> Nil, PayerPhone |-> Nil,
      PayerFirstName |-> Nil, PayerLastName |-> Nil, PayerAddress |-> Nil,
      PayerCountry |-> Nil, PayerState |-> Nil, PayerCity |-> Nil,
      PayerZip |-> Nil, CardNumber |-> Nil, CardExpMonth |-> Nil,
      CardExpYear |-> Nil, CardCvv2 |-> Nil, CardToken |-> Nil,
      TransId |-> Nil, Amount |-> "", Immediately |-> Nil, ReqToken |-> Nil,
      RecurringInit |-> Nil, Ext3 |-> Nil, SplitRules |-> EmptyRules,
      HashEmail |-> Nil, Auth |-> Nil, HashType |-> "", AuthFlag |-> Nil ]

WithAuth(q, auth) == [q EXCEPT !.Auth = auth]

WithClientKey(q, clientKey) == [q EXCEPT !.ClientKey = clientKey]

WithReqToken(q, flag) == [q EXCEPT !.ReqToken = IF flag THEN Ref("Y") ELSE Ref("N")]

WithRecurringInitFlag(q, flag) ==
    [q EXCEPT !.RecurringInit = IF flag THEN Ref("Y") ELSE Ref("N")]

WithChannelNoAmountVerification(q) == [q EXCEPT !.ChannelId = "VERIFY_ZERO"]

WithPayerIP(q, ip) == [q EXCEPT !.PayerIp = IF ip = Nil THEN Ref("127.0.0.1") ELSE ip]

WithTermsURL(q, url) == [q EXCEPT !.TermUrl3ds = url]

WithCardNumber(q, pan) == [q EXCEPT !.CardNumber = pan]

WithCardToken(q, token) == [q EXCEPT !.CardToken = token]

WithCardExpMonth(q, month) == [q EXCEPT !.CardExpMonth = month]

WithCardExpYear(q, year) == [q EXCEPT !.CardExpYear = year]

WithCardCvv2(q, cvv2) == [q EXCEPT !.CardCvv2 = cvv2]

WithPayerEmail(q, email) == [q EXCEPT !.PayerEmail = email]

WithPayerPhone(q, phone) == [q EXCEPT !.PayerPhone = phone]

WithPayerFirstName(q, firstName) == [q EXCEPT !.PayerFirstName = firstName]

WithPayerLastName(q, lastName) == [q EXCEPT !.PayerLastName = lastName]

WithPayerAddress(q, address) == [q EXCEPT !.PayerAddress = address]

WithPayerCountry(q, country) == [q EXCEPT !.PayerCountry = country]

WithPayerState(q, state) == [q EXCEPT !.PayerState = state]

WithPayerCity(q, city) == [q EXCEPT !.PayerCity = city]

WithPayerZip(q, zip) == [q EXCEPT !.PayerZip = zip]

WithPaymentToken(q, token) == [q EXCEPT !.PaymentToken = token]

WithOrderAmountMinorUnits(q, amount) ==
    [q EXCEPT !.OrderAmount = FormatMinorUnits(amount)]

WithOrderAmount(q, amount) == [q EXCEPT !.OrderAmount = amount]

ForCurrency(q, currency) == [q EXCEPT !.OrderCurrency = currency]

WithSubmerchantID(q, submerchantID) == [q EXCEPT !.SubmerchantID = submerchantID]

WithDescription(q, description) == [q EXCEPT !.OrderDescription = Ref(description)]

WithOrderID(q, orderID) == [q EXCEPT !.OrderID = orderID]

WithTransID(q, transID) == [q EXCEPT !.TransId = transID]

WithAmountMinorUnits(q, amount) == [q EXCEPT !.Amount = FormatMinorUnits(amount)]

WithAmount(q, amount) == [q EXCEPT !.Amount = amount]

\* len(splitRules) == 0 stores nil
WithSplitRules(q, splitRules) ==
    [q EXCEPT !.SplitRules = IF DOMAIN splitRules = {} THEN EmptyRules ELSE splitRules]

WithHoldAuth(q) == [q EXCEPT !.AuthFlag = Ref("Y")]

WithImmediately(q, flag) == [q EXCEPT !.Immediately = IF flag THEN Ref("Y") ELSE Nil]

WithHashEmail(q, email) == [q EXCEPT !.HashEmail = email]

WithExt3(q, value) == [q EXCEPT !.Ext3 = value]

SignForAction(q, t) == [q EXCEPT !.HashType = t]

(***************************************************************************)
(* Signatures.  Every generate...Signature returns [err, sign]; err = ""  *)
(* is Go's nil error.                                                      *)
(***************************************************************************)
\* the digest of the concatenation as it is written
SignedCaseSensitive(concatenated) == [err |-> "", sign |-> MD5Hex(concatenated)]

\* hex(md5(strings.ToUpper(concatenated)))
Signed(concatenated) == [err |-> "", sign |-> MD5Hex(ToUpper(concatenated))]

Failed(msg) == [err |-> msg, sign |-> ""]

NoSecret(q) == q.Auth = Nil \/ Deref(q.Auth).Secret = ""

Secret(q) == Deref(q.Auth).Secret

\* r.X == nil || *r.X == ""
Empty(p) == p = Nil \/ Deref(p) = ""

\* cardNumber[0:6] + cardNumber[len(cardNumber)-4:]
First6Last4(cardNumber) ==
    SubSeq(cardNumber, 1, 6) \o SubSeq(cardNumber, Len(cardNumber) - 3, Len(cardNumber))

generateCardPanSignature(q) ==
    IF q.PayerEmail = Nil
    THEN Failed("payer_email is required for signature generation")
    ELSE IF NoSecret(q)
    THEN Failed("Auth secret is required for signature generation")
    ELSE IF q.CardNumber = Nil
    THEN Failed("card_number is required for signature generation")
    ELSE IF Len(Deref(q.CardNumber)) < 10
    THEN Failed("card_number is too short")
    ELSE Signed(reverseString(Deref(q.PayerEmail)) \o Secret(q)
                \o reverseString(First6Last4(Deref(q.CardNumber))))

generateCardTokenSignature(q) ==
    IF q.PayerEmail = Nil
    THEN Failed("payer_email is required for signature generation")
    ELSE IF NoSecret(q)
    THEN Failed("Auth secret is required for signature generation")
    ELSE IF Empty(q.CardToken)
    THEN Failed("card_token is required for signature generation")
    ELSE Signed(reverseString(Deref(q.PayerEmail)) \o Secret(q)
                \o reverseString(Deref(q.CardToken)))

generatePaymentTokenSignature(q) ==
    IF q.PayerEmail = Nil
    THEN Failed("payer_email is required for signature generation")
    ELSE IF NoSecret(q)
    THEN Failed("Auth secret is required for signature generation")
    ELSE IF Empty(q.PaymentToken)
    THEN Failed("payment_token is required for signature generation")
    ELSE Signed(reverseString(Deref(q.PayerEmail)) \o Secret(q)
                \o reverseString(Deref(q.PaymentToken)))

generateRecurringSignature(q) == generateCardTokenSignature(q)

\* generateTransIDSignature with the trans_id reversed like the other recipes' last field
generateTransIDSignatureReversed(q) ==
    IF NoSecret(q)
    THEN Failed("Auth secret is required for signature generation")
    ELSE IF Empty(q.TransId)
    THEN Failed("trans_id is required for signature generation")
    ELSE LET email == IF q.HashEmail # Nil THEN Deref(q.HashEmail)
                      ELSE IF q.PayerEmail # Nil THEN Deref(q.PayerEmail)
                      ELSE ""
         IN  Signed(reverseString(email) \o Secret(q) \o reverseString(Deref(q.TransId)))

\* the trans_id is deliberately not reversed
generateTransIDSignature(q) ==
    IF NoSecret(q)
    THEN Failed("Auth secret is required for signature generation")
    ELSE IF Empty(q.TransId)
    THEN Failed("trans_id is required for signature generation")
    ELSE LET email == IF q.HashEmail # Nil THEN Deref(q.HashEmail)
                      ELSE IF q.PayerEmail # Nil THEN Deref(q.PayerEmail)
                      ELSE ""
         IN  Signed(reverseString(email) \o Secret(q) \o Deref(q.TransId))

\* generateGetTransStatusByOrderSignature consulting the payer email as well
generateGetTransStatusByOrderSignatureWithEmail(q) ==
    IF NoSecret(q)
    THEN Failed("Auth secret is required for signature generation")
    ELSE IF Empty(q.OrderID)
    THEN Failed("order_id is required for signature generation")
    ELSE Signed((IF q.PayerEmail # Nil THEN reverseString(Deref(q.PayerEmail)) ELSE "")
                \o Deref(q.OrderID) \o Secret(q))

generateGetTransStatusByOrderSignature(q) ==
    IF NoSecret(q)
    THEN Failed("Auth secret is required for signature generation")
    ELSE IF Empty(q.OrderID)
    THEN Failed("order_id is required for signature generation")
    ELSE Signed(Deref(q.OrderID) \o Secret(q))

generateGetSubmerchantSignature(q) ==
    IF NoSecret(q)
    THEN Failed("Auth secret is required for signature generation")
    ELSE IF Empty(q.SubmerchantID)
    THEN Failed("submerchant_id is required for signature generation")
    ELSE Signed(Secret(q) \o Deref(q.SubmerchantID))

generateCredit2CardSignature(q) ==
    IF NoSecret(q)
    THEN Failed("Auth secret is required for signature generation")
    ELSE IF Empty(q.CardNumber)
    THEN Failed("card_number is required for signature generation")
    ELSE IF Len(Deref(q.CardNumber)) < 10
    THEN Failed("card_number is too short")
    ELSE Signed(Secret(q) \o reverseString(First6Last4(Deref(q.CardNumber))))

generateCredit2CardTokenSignature(q) ==
    IF NoSecret(q)
    THEN Failed("Auth secret is required for signature generation")
    ELSE IF Empty(q.CardToken)
    THEN Failed("card_token is required for signature generation")
    ELSE Signed(Secret(q) \o reverseString(Deref(q.CardToken)))

\* the switch of SignAndPrepare: the signature for the request's hash type
generateByHashType(q) ==
    CASE q.HashType \in {"verification", "card_payment"} -> generateCardPanSignature(q)
      [] q.HashType = "card_token_payment" -> generateCardTokenSignature(q)
      [] q.HashType \in {"apple_pay", "google_pay"} -> generatePaymentTokenSignature(q)
      [] q.HashType = "recurring" -> generateRecurringSignature(q)
      [] q.HashType \in {"get_trans_status", "capture", "creditvoid"}
            -> generateTransIDSignature(q)
      [] q.HashType = "get_trans_status_by_order"
            -> generateGetTransStatusByOrderSignature(q)
      [] q.HashType = "get_submerchant" -> generateGetSubmerchantSignature(q)
      [] q.HashType = "credit2card" -> generateCredit2CardSignature(q)
      [] q.HashType = "credit2card_token" -> generateCredit2CardTokenSignature(q)
      [] OTHER -> Failed("unknown hash type: " \o q.HashType)

(***************************************************************************)
(* Validation.  A list of checks is a sequence of messages in source      *)
(* order, "" where the check passes: the error returned is the first      *)
(* message that is not "".                                                *)
(***************************************************************************)
Check(failed, msg) == IF failed THEN msg ELSE ""

RECURSIVE FirstError(_)
FirstError(checks) ==
    IF checks = <<>> THEN ""
    ELSE IF Head(checks) # "" THEN Head(checks)
    ELSE FirstError(Tail(checks))

\* len(*p) behind the nil check that precedes it
PtrLen(p) == IF p = Nil THEN 0 ELSE Len(Deref(p))

\* r.X == nil || strings.TrimSpace(*r.X) == ""
Blank(p) == p = Nil \/ TrimSpace(Deref(p)) = ""

\* the iteration orders a map may be ranged over
Orders(rules) ==
    {o \in [1..Cardinality(DOMAIN rules) -> DOMAIN rules] :
        \A i, j \in DOMAIN o : i # j => o[i] # o[j]}

\* the loop of validateSplitRules from the i-th rule of the order on
RECURSIVE splitRulesLoop(_, _, _, _, _, _)
splitRulesLoop(rules, order, i, splitMinorUnits, totalMinorUnits, context) ==
    IF i > Len(order)
    THEN Check(splitMinorUnits # totalMinorUnits,
               context \o ": split rules total must equal amount")
    ELSE LET submerchantID == order[i]
             amount == rules[submerchantID]
         IN  IF TrimSpace(submerchantID) = ""
             THEN context \o ": split_rules key (submerchant_id) is required"
             ELSE IF ~orderAmountRe(amount)
             THEN context \o ": split_rules amount must match the pattern"
             ELSE Let1(parseOrderAmountMinorUnits(amount), LAMBDA parsed :
                    IF parsed.err \/ ~IsPos64(parsed.v)
                    THEN context \o ": split_rules amount must be > 0"
                    ELSE splitRulesLoop(rules, order, i + 1, Add64(splitMinorUnits, parsed.v),
                                        totalMinorUnits, context))

validateSplitRules(rules, totalAmount, context, order) ==
    IF DOMAIN rules = {} THEN ""
    ELSE IF totalAmount = ""
    THEN context \o ": amount is required when split_rules are provided"
    ELSE Let1(parseOrderAmountMinorUnits(totalAmount), LAMBDA total :
           IF total.err \/ ~IsPos64(total.v)
           THEN context \o ": invalid amount for split_rules"
           ELSE splitRulesLoop(rules, order, 1, <<>>, total.v, context))

\* the three checks every kind makes of its amount field
\* amountChecks without the match against orderAmountRe
amountChecksNoPattern(context, name, amount) ==
    << Check(amount = "", context \o ": " \o name \o " is required"),
       Check(Let1(parseOrderAmountMinorUnits(amount),
                  LAMBDA parsed : parsed.err \/ ~IsPos64(parsed.v)),
             context \o ": " \o name \o " must be > 0") >>

amountChecks(context, name, amount) ==
    << Check(amount = "", context \o ": " \o name \o " is required"),
       Check(~orderAmountRe(amount), context \o ": " \o name \o " must match the pattern"),
       Check(Let1(parseOrderAmountMinorUnits(amount),
                  LAMBDA parsed : parsed.err \/ ~IsPos64(parsed.v)),
             context \o ": " \o name \o " must be > 0") >>

\* order_currency, order_description, payer_ip, term_url_3ds and payer_email
\* as the payment kinds check them; max is the kind's length limit
paymentChecks(q, context, maxDescription, maxTermUrl) ==
    << Check(q.OrderCurrency = "", context \o ": order_currency is required"),
       Check(Empty(q.OrderDescription), context \o ": order_description is required"),
       Check(PtrLen(q.OrderDescription) > maxDescription,
             context \o ": order_description is too long"),
       Check(Empty(q.PayerIp), context \o ": payer_ip is required"),
       Check(Empty(q.TermUrl3ds), context \o ": term_url_3ds is required"),
       Check(PtrLen(q.TermUrl3ds) > maxTermUrl, context \o ": term_url_3ds is too long"),
       Check(Empty(q.PayerEmail), context \o ": payer_email is required") >>

\* payer_phone and the card fields of the card-PAN kinds
cardChecks(q, context) ==
    << Check(Empty(q.PayerPhone), context \o ": payer_phone is required"),
       Check(Empty(q.CardNumber), context \o ": card_number is required"),
       Check(Empty(q.CardExpMonth), context \o ": card_exp_month is required"),
       Check(Empty(q.CardExpYear), context \o ": card_exp_year is required"),
       Check(Empty(q.CardCvv2), context \o ": card_cvv2 is required") >>

\* order_id required, of any length
orderIDChecksNoMax(q, context, max) ==
    << Check(Empty(q.OrderID), context \o ": order_id is required") >>

\* order_id required and at most max characters
orderIDChecks(q, context, max) ==
    << Check(Empty(q.OrderID), context \o ": order_id is required"),
       Check(PtrLen(q.OrderID) > max, context \o ": order_id is too long") >>

\* the defaults validateByHashType writes into the request before it checks
\* withDefaultFlags writing "Y" under both kinds
withDefaultFlagsAlwaysY(q) ==
    IF q.HashType \in {"verification", "card_payment"}
    THEN [q EXCEPT !.ReqToken = IF @ = Nil THEN Ref("Y") ELSE @,
                   !.RecurringInit = IF @ = Nil THEN Ref("Y") ELSE @]
    ELSE q

\* withDefaultFlags filling the flags under every kind
withDefaultFlagsAllKinds(q) ==
    [q EXCEPT !.ReqToken = IF @ = Nil THEN Ref("N") ELSE @,
              !.RecurringInit = IF @ = Nil THEN Ref("N") ELSE @]

withDefaultFlags(q) ==
    LET flag == IF q.HashType = "verification" THEN "Y" ELSE "N"
    IN  IF q.HashType \in {"verification", "card_payment"}
        THEN [q EXCEPT !.ReqToken = IF @ = Nil THEN Ref(flag) ELSE @,
                       !.RecurringInit = IF @ = Nil THEN Ref(flag) ELSE @]
        ELSE q

validateVerification(q) ==
    FirstError(
        << Check(q.Action # "SALE", "verification: action must be SALE"),
           Check(q.ChannelId # "VERIFY_ZERO", "verification: channel_id must be VERIFY_ZERO"),
           Check(q.OrderAmount # "0.40", "verification: order_amount must be 0.40") >>
        \o orderIDChecks(q, "verification", 32)
        \o paymentChecks(q, "verification", 255, 255)
        \o cardChecks(q, "verification")
        \o << Check(Empty(q.ReqToken), "verification: req_token is required"),
              Check(q.ReqToken # Ref("Y"), "verification: req_token must be Y"),
              Check(Empty(q.RecurringInit), "verification: recurring_init is required"),
              Check(q.RecurringInit # Ref("Y"), "verification: recurring_init must be Y") >>)

validateCardPayment(q, order) ==
    FirstError(
        << Check(q.Action # "SALE", "card_payment: action must be SALE") >>
        \o orderIDChecks(q, "card_payment", 32)
        \o amountChecks("card_payment", "order_amount", q.OrderAmount)
        \o << validateSplitRules(q.SplitRules, q.OrderAmount, "card_payment", order) >>
        \o paymentChecks(q, "card_payment", 255, 255)
        \o cardChecks(q, "card_payment")
        \o << Check(Empty(q.ReqToken), "card_payment: req_token is required"),
              Check(Empty(q.RecurringInit), "card_payment: recurring_init is required") >>)

validateCardTokenPayment(q, order) ==
    FirstError(
        << Check(q.Action # "SALE", "card_token_payment: action must be SALE"),
           Check(Empty(q.CardToken), "card_token_payment: card_token is required") >>
        \o orderIDChecks(q, "card_token_payment", 32)
        \o amountChecks("card_token_payment", "order_amount", q.OrderAmount)
        \o << validateSplitRules(q.SplitRules, q.OrderAmount, "card_token_payment", order) >>
        \o paymentChecks(q, "card_token_payment", 255, 255))

validateApplePay(q, order) ==
    FirstError(
        << Check(q.Action # "APPLEPAY", "apple_pay: action must be APPLEPAY"),
           Check(Empty(q.PaymentToken), "apple_pay: payment_token is required") >>
        \o orderIDChecks(q, "apple_pay", 255)
        \o amountChecks("apple_pay", "order_amount", q.OrderAmount)
        \o << validateSplitRules(q.SplitRules, q.OrderAmount, "apple_pay", order) >>
        \o paymentChecks(q, "apple_pay", 1024, 1024)
        \o << Check(Empty(q.PayerPhone), "apple_pay: payer_phone is required") >>)

validateGooglePay(q, order) ==
    FirstError(
        << Check(q.Action # "GOOGLEPAY", "google_pay: action must be GOOGLEPAY"),
           Check(Empty(q.PaymentToken), "google_pay: payment_token is required") >>
        \o orderIDChecks(q, "google_pay", 255)
        \o amountChecks("google_pay", "order_amount", q.OrderAmount)
        \o << validateSplitRules(q.SplitRules, q.OrderAmount, "google_pay", order) >>
        \o paymentChecks(q, "google_pay", 255, 255)
        \o << Check(Empty(q.PayerPhone), "google_pay: payer_phone is required") >>)

validateRecurring(q, order) ==
    FirstError(
        << Check(q.Action # "SALE", "recurring: action must be SALE"),
           Check(Empty(q.CardToken), "recurring: card_token is required"),
           Check(q.Ext3 # Ref("recurring"), "recurring: ext3 must be recurring") >>
        \o orderIDChecks(q, "recurring", 32)
        \o amountChecks("recurring", "order_amount", q.OrderAmount)
        \o << validateSplitRules(q.SplitRules, q.OrderAmount, "recurring", order) >>
        \o paymentChecks(q, "recurring", 255, 255))

validateGetTransStatus(q) ==
    FirstError(
        << Check(q.Action # "GET_TRANS_STATUS",
                 "get_trans_status: action must be GET_TRANS_STATUS"),
           Check(Empty(q.TransId), "get_trans_status: trans_id is required") >>)

validateGetTransStatusByOrder(q) ==
    FirstError(
        << Check(q.Action # "GET_TRANS_STATUS_BY_ORDER",
                 "get_trans_status_by_order: action must be GET_TRANS_STATUS_BY_ORDER"),
           Check(Blank(q.OrderID), "get_trans_status_by_order: order_id is required") >>)

\* CAPTURE and CREDITVOID make the same checks under their own action and context
validateTransAmount(q, order, action, context) ==
    FirstError(
        << Check(q.Action # action, context \o ": action must be " \o action),
           Check(Empty(q.TransId), context \o ": trans_id is required") >>
        \o amountChecks(context, "amount", q.Amount)
        \o << validateSplitRules(q.SplitRules, q.Amount, context, order) >>)

\* validateCredit2Card without its last check, the one that forbids split rules
validateCredit2CardAllowingSplit(q, context, cardField, cardName) ==
    FirstError(
        << Check(q.Action # "CREDIT2CARD", context \o ": action must be CREDIT2CARD"),
           Check(Empty(q[cardField]), context \o ": " \o cardName \o " is required"),
           Check(Empty(q.OrderID), context \o ": order_id is required") >>
        \o amountChecks(context, "amount", q.Amount)
        \o << Check(q.OrderCurrency = "", context \o ": order_currency is required"),
              Check(Blank(q.OrderDescription), context \o ": order_description is required"),
              Check(Blank(q.PayerFirstName), context \o ": payer_first_name is required"),
              Check(Blank(q.PayerLastName), context \o ": payer_last_name is required"),
              Check(Blank(q.PayerAddress), context \o ": payer_address is required"),
              Check(Blank(q.PayerCountry), context \o ": payer_country is required"),
              Check(Blank(q.PayerState), context \o ": payer_state is required"),
              Check(Blank(q.PayerCity), context \o ": payer_city is required"),
              Check(Blank(q.PayerZip), context \o ": payer_zip is required") >>)

\* the payout checks; cardField is CardNumber or CardToken
validateCredit2Card(q, context, cardField, cardName) ==
    FirstError(
        << Check(q.Action # "CREDIT2CARD", context \o ": action must be CREDIT2CARD"),
           Check(Empty(q[cardField]), context \o ": " \o cardName \o " is required"),
           Check(Empty(q.OrderID), context \o ": order_id is required") >>
        \o amountChecks(context, "amount", q.Amount)
        \o << Check(q.OrderCurrency = "", context \o ": order_currency is required"),
              Check(Blank(q.OrderDescription), context \o ": order_description is required"),
              Check(Blank(q.PayerFirstName), context \o ": payer_first_name is required"),
              Check(Blank(q.PayerLastName), context \o ": payer_last_name is required"),
              Check(Blank(q.PayerAddress), context \o ": payer_address is required"),
              Check(Blank(q.PayerCountry), context \o ": payer_country is required"),
              Check(Blank(q.PayerState), context \o ": payer_state is required"),
              Check(Blank(q.PayerCity), context \o ": payer_city is required"),
              Check(Blank(q.PayerZip), context \o ": payer_zip is required"),
              Check(DOMAIN q.SplitRules # {}, context \o ": split_rules are not allowed") >>)

validateGetSubmerchant(q) ==
    FirstError(
        << Check(q.Action # "GET_SUBMERCHANT",
                 "get_submerchant: action must be GET_SUBMERCHANT"),
           Check(Blank(q.SubmerchantID), "get_submerchant: submerchant_id is required"),
           Check(DOMAIN q.SplitRules # {}, "get_submerchant: split_rules are not allowed") >>)

\* validateByHashType: [err, r], r the request with the defaults written
validateByHashType(q, order) ==
    LET d == withDefaultFlags(q)
    IN  [ r   |-> d,
          err |->
            CASE q.HashType = "verification" -> validateVerification(d)
              [] q.HashType = "card_payment" -> validateCardPayment(d, order)
              [] q.HashType = "card_token_payment" -> validateCardTokenPayment(d, order)
              [] q.HashType = "apple_pay" -> validateApplePay(d, order)
              [] q.HashType = "google_pay" -> validateGooglePay(d, order)
              [] q.HashType = "recurring" -> validateRecurring(d, order)
              [] q.HashType = "get_trans_status" -> validateGetTransStatus(d)
              [] q.HashType = "get_trans_status_by_order"
                    -> validateGetTransStatusByOrder(d)
              [] q.HashType = "capture" -> validateTransAmount(d, order, "CAPTURE", "capture")
              [] q.HashType = "creditvoid"
                    -> validateTransAmount(d, order, "CREDITVOID", "creditvoid")
              [] q.HashType = "credit2card"
                    -> validateCredit2Card(d, "credit2card", "CardNumber", "card_number")
              [] q.HashType = "credit2card_token"
                    -> validateCredit2Card(d, "credit2card_token", "CardToken", "card_token")
              [] q.HashType = "get_submerchant" -> validateGetSubmerchant(d)
              [] OTHER -> "" ]

(***************************************************************************)
(* The validate tags of the Request fields, as validator.Struct applies   *)
(* them: omitempty skips an empty string and a nil pointer, and a pointer *)
(* that is not nil meets the tags that follow even when it points to "".  *)
(***************************************************************************)
AllDigits(s) == s # "" /\ \A i \in 1..Len(s) : IsDigit(At(s, i))

\* numeric: ^[-+]?[0-9]+(?:\.[0-9]+)?$
IsNumeric(s) ==
    LET b   == IF s # "" /\ Head(s) \in {"+", "-"} THEN Tail(s) ELSE s
        dot == IndexDot(b, 1)
    IN  IF dot = 0 THEN AllDigits(b)
        ELSE AllDigits(SubSeq(b, 1, dot - 1)) /\ AllDigits(SubSeq(b, dot + 1, Len(b)))

\* alpha: ^[a-zA-Z]+$
IsAlpha(s) == s # "" /\ \A i \in 1..Len(s) : IsLetter(At(s, i))

HasPrefix(s, prefix) == Len(s) >= Len(prefix) /\ SubSeq(s, 1, Len(prefix)) = prefix

\* the pieces of s between the occurrences of the character sep
RECURSIVE Split(_, _, _)
Split(s, sep, piece) ==
    IF s = "" THEN <<piece>>
    ELSE IF Head(s) = sep THEN <<piece>> \o Split(Tail(s), sep, "")
    ELSE Split(Tail(s), sep, piece \o Head(s))

\* ipv4: four decimal numbers up to 255 between dots
IsIPv4(s) ==
    LET p == Split(s, ".", "")
    IN  /\ Len(p) = 4
        /\ \A i \in 1..4 :
              /\ AllDigits(p[i])
              /\ Len(p[i]) <= 3
              /\ Cmp(DigitsToNat(p[i], <<>>), FromInt(255)) <= 0

\* email: one "@" between a local part and a domain of letters, digits and ".-_+"
IsEmail(s) ==
    LET p == Split(s, "@", "")
        word(w) == w # "" /\ \A i \in 1..Len(w) :
                       IsLetter(At(w, i)) \/ IsDigit(At(w, i)) \/ At(w, i) \in {".", "-", "_", "+"}
    IN  Len(p) = 2 /\ word(p[1]) /\ word(p[2])

\* url: a scheme of letters, ":" and something after it
IsURL(s) ==
    LET p == Split(s, ":", "")
    IN  Len(p) >= 2 /\ IsAlpha(p[1]) /\ p[2] # ""

\* len of a hex digest: every MD5 digest has 32 characters
HashLen(h) == IF HasPrefix(h, "md5:") THEN 32 ELSE Len(h)

validateStruct(q) ==
    /\ q.Action = "" \/ q.Action \in {"SALE", "GET_TRANS_STATUS", "GET_TRANS_STATUS_BY_ORDER",
                                      "APPLEPAY", "GOOGLEPAY", "CAPTURE", "CREDITVOID",
                                      "CREDIT2CARD", "GET_SUBMERCHANT"}
    /\ q.ClientKey # ""
    /\ q.Hash = "" \/ HashLen(q.Hash) = 32
    /\ Len(q.ChannelId) <= 255
    /\ q.PayerIp = Nil \/ IsIPv4(Deref(q.PayerIp))
    /\ q.TermUrl3ds = Nil \/ (PtrLen(q.TermUrl3ds) <= 1024 /\ IsURL(Deref(q.TermUrl3ds)))
    /\ PtrLen(q.OrderID) <= 255
    /\ q.OrderCurrency = "" \/ (IsAlpha(q.OrderCurrency) /\ Len(q.OrderCurrency) = 3)
    /\ PtrLen(q.SubmerchantID) <= 255
    /\ PtrLen(q.OrderDescription) <= 1024
    /\ q.PayerEmail = Nil \/ (IsEmail(Deref(q.PayerEmail)) /\ PtrLen(q.PayerEmail) <= 256)
    /\ q.PayerPhone = Nil \/ /\ IsNumeric(Deref(q.PayerPhone))
                             /\ HasPrefix(Deref(q.PayerPhone), "380")
                             /\ PtrLen(q.PayerPhone) <= 32
    /\ PtrLen(q.PayerFirstName) <= 32
    /\ PtrLen(q.PayerLastName) <= 32
    /\ PtrLen(q.PayerAddress) <= 256
    /\ PtrLen(q.PayerCountry) <= 2
    /\ PtrLen(q.PayerState) <= 2
    /\ PtrLen(q.PayerCity) <= 32
    /\ PtrLen(q.PayerZip) <= 32
    /\ q.CardNumber = Nil \/ (IsNumeric(Deref(q.CardNumber)) /\ PtrLen(q.CardNumber) = 16)
    /\ q.CardExpMonth = Nil \/ (IsNumeric(Deref(q.CardExpMonth)) /\ PtrLen(q.CardExpMonth) = 2)
    /\ q.CardExpYear = Nil \/ (IsNumeric(Deref(q.CardExpYear)) /\ PtrLen(q.CardExpYear) = 4)
    /\ q.CardCvv2 = Nil \/ (IsNumeric(Deref(q.CardCvv2)) /\ PtrLen(q.CardCvv2) = 3)
    /\ PtrLen(q.CardToken) <= 32
    /\ PtrLen(q.TransId) <= 32
    /\ q.Immediately = Nil \/ Deref(q.Immediately) = "Y"
    /\ q.ReqToken = Nil \/ Deref(q.ReqToken) \in {"Y", "N"}
    /\ q.RecurringInit = Nil \/ Deref(q.RecurringInit) \in {"Y", "N"}
    /\ PtrLen(q.Ext3) <= 1024

(***************************************************************************)
(* SignAndPrepare on a receiver that is not nil: [r, err, ret], r the     *)
(* receiver after the call and ret whether the call returned it.          *)
(***************************************************************************)
SignAndPrepare(q, order) ==
    Let1(generateByHashType(q), LAMBDA g :
      IF HasPrefix(g.err, "unknown hash type")
      THEN [r |-> q, err |-> g.err, ret |-> FALSE]
      ELSE IF g.err # ""
      THEN [r |-> q, err |-> "signature generation failed: " \o g.err, ret |-> FALSE]
      ELSE Let1(validateByHashType([q EXCEPT !.Hash = g.sign], order), LAMBDA v :
             IF v.err # ""
             THEN [r |-> v.r, err |-> v.err, ret |-> FALSE]
             ELSE IF ~validateStruct(v.r)
             THEN [r |-> v.r, err |-> "internal request validation failed", ret |-> FALSE]
             ELSE [r |-> v.r, err |-> "", ret |-> TRUE]))

(***************************************************************************)
(* ToMap: the fields with a json tag, by tag, without the zero ones.      *)
(***************************************************************************)
WireFields ==
    << <<"action", "Action", "string">>, <<"client_key", "ClientKey", "string">>,
       <<"hash", "Hash", "string">>, <<"channel_id", "ChannelId", "string">>,
       <<"payer_ip", "PayerIp", "ptr">>, <<"term_url_3ds", "TermUrl3ds", "ptr">>,
       <<"order_id", "OrderID", "ptr">>, <<"order_amount", "OrderAmount", "string">>,
       <<"order_currency", "OrderCurrency", "string">>,
       <<"submerchant_id", "SubmerchantID", "ptr">>,
       <<"order_description", "OrderDescription", "ptr">>,
       <<"payment_token", "PaymentToken", "ptr">>, <<"payer_email", "PayerEmail", "ptr">>,
       <<"payer_phone", "PayerPhone", "ptr">>,
       <<"payer_first_name", "PayerFirstName", "ptr">>,
       <<"payer_last_name", "PayerLastName", "ptr">>,
       <<"payer_address", "PayerAddress", "ptr">>,
       <<"payer_country", "PayerCountry", "ptr">>, <<"payer_state", "PayerState", "ptr">>,
       <<"payer_city", "PayerCity", "ptr">>, <<"payer_zip", "PayerZip", "ptr">>,
       <<"card_number", "CardNumber", "ptr">>, <<"card_exp_month", "CardExpMonth", "ptr">>,
       <<"card_exp_year", "CardExpYear", "ptr">>, <<"card_cvv2", "CardCvv2", "ptr">>,
       <<"card_token", "CardToken", "ptr">>, <<"trans_id", "TransId", "ptr">>,
       <<"amount", "Amount", "string">>, <<"immediately", "Immediately", "ptr">>,
       <<"req_token", "ReqToken", "ptr">>, <<"recurring_init", "RecurringInit", "ptr">>,
       <<"ext3", "Ext3", "ptr">>, <<"split_rules", "SplitRules", "map">>,
       <<"auth", "AuthFlag", "ptr">> >>

\* reflect.Value.IsZero for the three kinds of field
IsZero(value, kind) ==
    CASE kind = "string" -> value = ""
      [] kind = "ptr" -> value = Nil
      [] kind = "map" -> DOMAIN value = {}

ToMap(q) ==
    LET kept == {i \in 1..Len(WireFields) : ~IsZero(q[WireFields[i][2]], WireFields[i][3])}
        at(tag) == CHOOSE i \in kept : WireFields[i][1] = tag
    IN  [tag \in {WireFields[i][1] : i \in kept} |->
            IF WireFields[at(tag)][3] = "ptr" THEN Deref(q[WireFields[at(tag)][2]])
            ELSE q[WireFields[at(tag)][2]]]

(***************************************************************************)
(* The requests the builder chains of the package's tests put together,   *)
(* one per hash type.                                                      *)
(***************************************************************************)
TestAuth == Ref([Key |-> "k", Secret |-> "sEc"])

\* NewRequest(action).WithAuth(auth).WithClientKey("clientKey")
Common(action) == WithClientKey(WithAuth(NewRequest(action), TestAuth), "clientKey")

\* WithOrderID, WithOrderAmount, ForCurrency, WithDescription
OrderPart(q, amount) ==
    WithDescription(ForCurrency(WithOrderAmount(WithOrderID(q, Ref("o-1")), amount), "UAH"),
                    "pay")

\* WithPayerIP, WithTermsURL, WithPayerEmail, WithPayerPhone
PayerPart(q) ==
    WithPayerPhone(
        WithPayerEmail(WithTermsURL(WithPayerIP(q, Ref("127.0.0.1")), Ref("https://e.co/3")),
                       Ref("p@e.co")),
        Ref("380631234567"))

\* WithCardNumber, WithCardExpMonth, WithCardExpYear, WithCardCvv2
CardPart(q) ==
    WithCardCvv2(
        WithCardExpYear(WithCardExpMonth(WithCardNumber(q, Ref("4111111111111111")), Ref("01")),
                        Ref("2026")),
        Ref("123"))

\* the payer data of a payout
A2CPart(q) ==
    WithPayerZip(WithPayerCity(WithPayerState(WithPayerCountry(WithPayerAddress(
        WithPayerLastName(WithPayerFirstName(q, Ref("John")), Ref("Doe")),
        Ref("Main st 1")), Ref("UA")), Ref("UA")), Ref("Kyiv")), Ref("01001"))

\* WithOrderID, WithAmount, ForCurrency, WithDescription of a payout
PayoutPart(q, amount) ==
    WithDescription(ForCurrency(WithAmount(WithOrderID(q, Ref("o-1")), amount), "UAH"), "pay")

TestRequest(hashType, amount) ==
    SignForAction(
        CASE hashType = "verification"
                -> WithRecurringInitFlag(WithReqToken(CardPart(PayerPart(OrderPart(
                       WithChannelNoAmountVerification(Common("SALE")), "0.40"))), TRUE), TRUE)
          [] hashType = "card_payment" -> CardPart(PayerPart(OrderPart(Common("SALE"), amount)))
          [] hashType = "card_token_payment"
                -> WithCardToken(PayerPart(OrderPart(Common("SALE"), amount)), Ref("tok1"))
          [] hashType = "apple_pay"
                -> WithPaymentToken(PayerPart(OrderPart(Common("APPLEPAY"), amount)), Ref("ZGF0"))
          [] hashType = "google_pay"
                -> WithPaymentToken(PayerPart(OrderPart(Common("GOOGLEPAY"), amount)), Ref("ZGF0"))
          [] hashType = "recurring"
                -> WithExt3(WithCardToken(PayerPart(OrderPart(Common("SALE"), amount)),
                                          Ref("tok1")), Ref("recurring"))
          [] hashType = "get_trans_status"
                -> WithPayerEmail(WithTransID(Common("GET_TRANS_STATUS"), Ref("t63")),
                                  Ref("p@e.co"))
          [] hashType = "get_trans_status_by_order"
                -> WithOrderID(Common("GET_TRANS_STATUS_BY_ORDER"), Ref("o-1"))
          [] hashType = "capture"
                -> WithHashEmail(WithAmount(WithTransID(Common("CAPTURE"), Ref("t63")), amount),
                                 Ref("p@e.co"))
          [] hashType = "creditvoid"
                -> WithHashEmail(WithAmount(WithTransID(Common("CREDITVOID"), Ref("t63")),
                                            amount), Ref("p@e.co"))
          [] hashType = "credit2card"
                -> WithCardNumber(A2CPart(PayoutPart(Common("CREDIT2CARD"), amount)),
                                  Ref("4111111111111111"))
          [] hashType = "credit2card_token"
                -> WithCardToken(A2CPart(PayoutPart(Common("CREDIT2CARD"), amount)), Ref("tok1"))
          [] hashType = "get_submerchant"
                -> WithSubmerchantID(Common("GET_SUBMERCHANT"), Ref("12345678")),
        hashType)

HashTypes ==
    {"verification", "card_payment", "card_token_payment", "apple_pay", "google_pay",
     "recurring", "get_trans_status", "get_trans_status_by_order", "capture", "creditvoid",
     "credit2card", "credit2card_token", "get_submerchant"}

\* a payout chain that also calls WithSplitRules
SplitPayout == WithSplitRules(TestRequest("credit2card_token", "1.00"), [A |-> "1.00"])

\* the verification chain without WithReqToken and WithRecurringInitFlag
BareVerification ==
    SignForAction(CardPart(PayerPart(OrderPart(
        WithChannelNoAmountVerification(Common("SALE")), "0.40"))), "verification")

TestRequests ==
    {TestRequest(t, "1.00") : t \in HashTypes}
    \cup {TestRequest(t, "10.00") : t \in {"card_payment", "capture"}}
    \cup {SplitPayout, BareVerification}

(***************************************************************************)
(* go_platon.Request, as far as GetSplitRules and Credit read it:         *)
(* [Merchant, PaymentData, CardToken, Email, Phone], Merchant a pointer   *)
(* to [MerchantKey, SecretKey] and PaymentData a pointer to [PaymentID,   *)
(* Amount, Currency, Description, SplitRules], SplitRules a sequence of   *)
(* [SubmerchantIdentification, Amount].                                   *)
(***************************************************************************)
GetAuth(request) ==
    IF request.Merchant = Nil
    THEN Ref([Key |-> "EMPTY_KEY", Secret |-> "EMPTY_SECRET"])
    ELSE Ref([Key |-> Deref(request.Merchant).MerchantKey,
              Secret |-> Deref(request.Merchant).SecretKey])

GetMerchantKey(request) ==
    IF request.Merchant = Nil THEN "" ELSE Deref(request.Merchant).MerchantKey

GetPaymentID(request) ==
    IF request.PaymentData = Nil THEN Nil ELSE Deref(request.PaymentData).PaymentID

GetCurrency(request) ==
    IF request.PaymentData = Nil THEN "" ELSE Deref(request.PaymentData).Currency

GetDescription(request) ==
    IF request.PaymentData = Nil THEN "" ELSE Deref(request.PaymentData).Description

\* the loop of GetSplitRules from the idx-th rule on: [err, rules]
RECURSIVE getSplitRulesLoop(_, _, _, _, _)
getSplitRulesLoop(rules, idx, result, totalMinorUnits, amount) ==
    IF idx > Len(rules)
    THEN IF totalMinorUnits # amount
         THEN [err |-> "split rules total must equal amount", rules |-> EmptyRules]
         ELSE [err |-> "", rules |-> result]
    ELSE LET rule == rules[idx]
             identification == TrimSpace(rule.SubmerchantIdentification)
             total == Add64(totalMinorUnits, rule.Amount)
         IN  IF identification = ""
             THEN [err |-> "submerchant identification is required", rules |-> EmptyRules]
             ELSE IF ~IsPos64(rule.Amount)
             THEN [err |-> "amount (minor units) must be > 0", rules |-> EmptyRules]
             ELSE IF Less64(amount, total)
             THEN [err |-> "split rules total exceeds amount", rules |-> EmptyRules]
             ELSE IF identification \in DOMAIN result
             THEN [err |-> "duplicate submerchant identification", rules |-> EmptyRules]
             ELSE getSplitRulesLoop(rules, idx + 1,
                                    (identification :> FormatMinorUnits(rule.Amount)) @@ result,
                                    total, amount)

GetSplitRules(request) ==
    IF request.PaymentData = Nil \/ Deref(request.PaymentData).SplitRules = <<>>
    THEN [err |-> "", rules |-> EmptyRules]
    ELSE IF ~IsPos64(Deref(request.PaymentData).Amount)
    THEN [err |-> "amount (minor units) must be > 0 when split rules are provided",
          rules |-> EmptyRules]
    ELSE getSplitRulesLoop(Deref(request.PaymentData).SplitRules, 1, EmptyRules, <<>>,
                           Deref(request.PaymentData).Amount)

\* resolveA2CPayerData on a request without personal names and metadata
A2CDefaults(q) ==
    WithPayerZip(WithPayerCity(WithPayerState(WithPayerCountry(WithPayerAddress(
        WithPayerLastName(WithPayerFirstName(q, Ref("Payer")), Ref("Cardholder")),
        Ref("N/A")), Ref("UA")), Ref("UA")), Ref("Kyiv")), Ref("00000"))

\* Credit up to the call of Api: [err, api], api the request handed to Api
Credit(request) ==
    LET api   == WithPayerPhone(WithPayerEmail(A2CDefaults(
                     WithDescription(ForCurrency(WithAmountMinorUnits(
                         WithOrderID(WithClientKey(WithAuth(NewRequest("CREDIT2CARD"),
                             GetAuth(request)), GetMerchantKey(request)),
                             GetPaymentID(request)),
                         Deref(request.PaymentData).Amount), GetCurrency(request)),
                         GetDescription(request))),
                     request.Email), request.Phone)
        reject(msg) == [err |-> msg, api |-> Nil]
    IN  IF GetMerchantKey(request) = ""
        THEN reject("credit: merchant client_key is required")
        ELSE IF request.PaymentData = Nil
        THEN reject("credit: PaymentData is nil")
        ELSE IF Empty(GetPaymentID(request))
        THEN reject("credit: order_id (PaymentData.PaymentID) is required")
        ELSE IF ~IsPos64(Deref(request.PaymentData).Amount)
        THEN reject("credit: PaymentData.Amount (minor units) must be > 0")
        ELSE IF GetCurrency(request) = ""
        THEN reject("credit: order_currency is required")
        ELSE IF GetDescription(request) = ""
        THEN reject("credit: order_description is required")
        ELSE Let1(GetSplitRules(request), LAMBDA rules :
               IF rules.err # ""
               THEN reject("credit: invalid split rules: " \o rules.err)
               ELSE IF DOMAIN rules.rules # {}
               THEN reject("credit: split rules are not supported for CREDIT2CARD")
               ELSE IF Empty(request.CardToken)
               THEN reject("credit: card_token is required")
               ELSE [err |-> "",
                     api |-> Ref(SignForAction(WithCardToken(api, request.CardToken),
                                               "credit2card_token"))])

\* digitsOnly of the client: the digits of s
RECURSIVE digitsOnly(_)
digitsOnly(s) ==
    IF s = "" THEN ""
    ELSE IF IsDigit(Head(s)) THEN Head(s) \o digitsOnly(Tail(s))
    ELSE digitsOnly(Tail(s))

\* cardHashPartFromPAN of the client: [val, err]
cardHashPartFromPAN(pan) ==
    Let1(digitsOnly(pan), LAMBDA digits :
      IF Len(digits) < 10
      THEN [val |-> "", err |-> "card_number must contain at least 10 digits"]
      ELSE [val |-> First6Last4(digits), err |-> ""])

(***************************************************************************)
(* The request machine: a caller holds one platon.Request r, calls its    *)
(* builders, SignAndPrepare and ToMap in any order, and calls the         *)
(* client's Credit.  ret is the last SignAndPrepare or ToMap on r, [op,   *)
(* err, arg], and out the map ToMap returned; req is the request of the   *)
(* last client call and res its result [op, err, val]; args holds the     *)
(* arguments of a call that takes no request.                             *)
(***************************************************************************)
MaxSetterCalls == 1

\* strings.Repeat(s, n)
RECURSIVE Repeat(_, _)
Repeat(s, n) ==
    IF n = 0 THEN "" ELSE IF n = 1 THEN s
    ELSE Repeat(s, n \div 2) \o Repeat(s, n - (n \div 2))

NoCall == [op |-> "", err |-> "", arg |-> <<>>]

RuleSetInputs ==
    { EmptyRules,
      [A |-> "1.00"],
      [A |-> "0.70", B |-> "0.40"],
      [A |-> "0.25", B |-> "0.50"],
      [A |-> "2.50", B |-> "7.50"],
      (" " :> "1.00"),
      [A |-> "1"],
      [A |-> "0.00", B |-> "1.00"],
      [A |-> "184467440737095517.16"] }

AuthInputs ==
    {Nil, Ref([Key |-> "k", Secret |-> ""]), Ref([Key |-> "k2", Secret |-> "sEc"])}

\* the requests one builder call can turn q into
SetterResults(q) ==
    {WithAuth(q, a) : a \in AuthInputs}
    \cup {WithClientKey(q, "")}
    \cup {WithReqToken(q, f) : f \in BOOLEAN}
    \cup {WithRecurringInitFlag(q, FALSE)}
    \cup {WithChannelNoAmountVerification(q)}
    \cup {WithPayerIP(q, ip) : ip \in {Nil, Ref("")}}
    \cup {WithTermsURL(q, Nil)}
    \cup {WithCardNumber(q, pan) :
            pan \in {Nil, Ref("411111"), Ref("4111112222221111"), Ref("4111111111"),
                     Ref("4111-11111")}}
    \cup {WithCardToken(q, t) : t \in {Nil, Ref("tok2")}}
    \cup {WithCardExpMonth(q, Ref("1")), WithCardExpYear(q, Nil), WithCardCvv2(q, Ref("12a"))}
    \cup {WithPayerEmail(q, e) : e \in {Nil, Ref(""), Ref("q@e.co")}}
    \cup {WithPayerPhone(q, Ref("0501"))}
    \cup {WithPayerFirstName(q, Ref(" ")), WithPayerLastName(q, Nil),
          WithPayerAddress(q, Nil), WithPayerCountry(q, Ref("UKR")),
          WithPayerState(q, Nil), WithPayerCity(q, Nil), WithPayerZip(q, Nil)}
    \cup {WithPaymentToken(q, t) : t \in {Nil, Ref("ZGF1")}}
    \cup {WithOrderAmountMinorUnits(q, FromInt(250))}
    \cup {WithOrderAmount(q, a) : a \in {"", "1000", "1.0", "-1.00", "0.00"}}
    \cup {ForCurrency(q, "")}
    \cup {WithSubmerchantID(q, id) : id \in {Ref(" "), Ref("87654321")}}
    \cup {WithDescription(q, "")}
    \cup {WithOrderID(q, id) : id \in {Nil, Ref(" "), Ref("o-2")}}
    \cup {WithOrderID(q, Ref(Repeat("o", n))) : n \in {32, 33, 255, 256}}
    \cup {WithTransID(q, id) : id \in {Nil, Ref(""), Ref("t64")}}
    \cup {WithAmountMinorUnits(q, FromInt(250))}
    \cup {WithAmount(q, a) : a \in {"", "1000", "1.0", "-1.00", "0.00"}}
    \cup {WithSplitRules(q, rules) : rules \in RuleSetInputs}
    \cup {WithImmediately(q, f) : f \in BOOLEAN}
    \cup {WithHashEmail(q, e) : e \in {Nil, Ref("h@e.co")}}
    \cup {WithExt3(q, Nil)}
    \cup {SignForAction(q, t) :
            t \in {"get_trans_status", "creditvoid", "credit2card", "get_submerchant", "bogus"}}

ClientRequest(amount, splitRules, token) ==
    [ Merchant    |-> Ref([MerchantKey |-> "clientKey", SecretKey |-> "sEc"]),
      PaymentData |-> Ref([PaymentID |-> Ref("o-1"), Amount |-> amount, Currency |-> "UAH",
                           Description |-> "pay", SplitRules |-> splitRules]),
      CardToken   |-> token,
      Email       |-> Ref("p@e.co"),
      Phone       |-> Ref("380631234567") ]

Rule(id, amount) == [SubmerchantIdentification |-> id, Amount |-> amount]

CreditInputs ==
    { ClientRequest(FromInt(100), <<>>, Ref("tok1")),
      ClientRequest(FromInt(100), <<>>, Nil),
      ClientRequest(FromInt(100), <<Rule("A", FromInt(100))>>, Ref("tok1")),
      ClientRequest(FromInt(100), <<Rule("A", FromInt(70))>>, Ref("tok1")),
      [ClientRequest(FromInt(100), <<>>, Ref("tok1")) EXCEPT !.PaymentData = Nil] }

NoRequest == [Merchant |-> Nil, PaymentData |-> Nil, CardToken |-> Nil, Email |-> Nil,
              Phone |-> Nil]

NoResult == [op |-> "", err |-> "", val |-> Nil]

Init ==
    /\ r \in TestRequests
    /\ ret = NoCall
    /\ signed = FALSE
    /\ budget = MaxSetterCalls
    /\ out = Nil
    /\ req = NoRequest
    /\ res = NoResult
    /\ amt = <<>>
    /\ form = Nil
    /\ args = <<>>
    /\ call = Nil
    /\ net = <<>>
    /\ dry = <<>>

\* one builder call on r
Setter ==
    /\ budget > 0
    /\ \E q \in SetterResults(r) : r' = q
    /\ budget' = budget - 1
    /\ ret' = NoCall
    /\ out' = Nil
    /\ UNCHANGED <<signed, req, res, amt, form, args, call, net, dry>>

\* r.SignAndPrepare()
Sign ==
    /\ \E order \in Orders(r.SplitRules) :
          \E s \in {SignAndPrepare(r, order)} :
              /\ r' = s.r
              /\ ret' = [op |-> "SignAndPrepare", err |-> s.err, arg |-> r]
              /\ signed' = (signed \/ s.ret)
    /\ out' = Nil
    /\ UNCHANGED <<budget, req, res, amt, form, args, call, net, dry>>

\* r.ToMap()
Map ==
    /\ out' = Ref(ToMap(r))
    /\ ret' = [op |-> "ToMap", err |-> "", arg |-> <<>>]
    /\ UNCHANGED <<r, signed, budget, req, res, amt, form, args, call, net, dry>>

\* client.Credit(request): on success Api signs the request and posts its map
CreditCall ==
    /\ budget > 0
    /\ \E request \in CreditInputs :
          /\ req' = request
          /\ \E c \in {Credit(request)} :
                IF c.err # ""
                THEN res' = [op |-> "Credit", err |-> c.err, val |-> Nil]
                ELSE \E s \in {SignAndPrepare(Deref(c.api), <<>>)} :
                        res' = [op |-> "Credit", err |-> s.err,
                                val |-> IF s.err = "" THEN Ref(ToMap(s.r)) ELSE Nil]
    /\ budget' = budget - 1
    /\ UNCHANGED <<r, ret, signed, out, amt, form, args, call, net, dry>>

\* the card numbers the client derives a card hash part from
PanInputs == {"", "411111111", "4111-11111", "4111111111", "4111 1111 11", "4111112222221111"}

\* cardHashPartFromPAN(pan), as the client's status, capture and refund calls run it
CardHashCall ==
    /\ budget > 0
    /\ \E pan \in PanInputs :
          /\ args' = [pan |-> pan]
          /\ \E h \in {cardHashPartFromPAN(pan)} :
                res' = [op |-> "cardHashPartFromPAN", err |-> h.err, val |-> h.val]
    /\ budget' = budget - 1
    /\ UNCHANGED <<r, ret, signed, out, req, amt, form, call, net, dry>>

Next == Setter \/ Sign \/ Map \/ CreditCall \/ CardHashCall

Spec == Init /\ [][Next]_vars

(***************************************************************************)
(* GetSplitRules on its own: a client request with up to MaxRules split   *)
(* rules, and calls of GetSplitRules on it.                               *)
(***************************************************************************)
MaxRules == 2

RuleIDs == {"A", "B", " A", " "}

\* 0, 1, 250, 750, -1 and 2^46 * 100 + 1
RuleAmounts == {<<>>, <<1>>, <<250>>, <<750>>, <<65535, 65535, 65535, 65535>>, <<1, 0, 0, 25>>}

\* 1, 250, 1000, 0 and 2^46 * 100 + 1
TotalAmounts == {<<1>>, <<250>>, <<1000>>, <<>>, <<1, 0, 0, 25>>}

RuleLists ==
    UNION {[1..n -> {Rule(id, a) : id \in RuleIDs, a \in RuleAmounts}] : n \in 0..MaxRules}

InitSplit ==
    /\ req \in {ClientRequest(total, rules, Ref("tok1")) :
                    total \in TotalAmounts, rules \in RuleLists}
    /\ res = NoResult
    /\ r = NewRequest("")
    /\ ret = NoCall
    /\ signed = FALSE
    /\ budget = 0
    /\ out = Nil
    /\ amt = <<>>
    /\ form = Nil
    /\ args = <<>>
    /\ call = Nil
    /\ net = <<>>
    /\ dry = <<>>

\* request.GetSplitRules()
CallGetSplitRules ==
    /\ \E g \in {GetSplitRules(req)} :
          res' = [op |-> "GetSplitRules", err |-> g.err, val |-> g.rules]
    /\ UNCHANGED <<r, ret, signed, budget, out, req, amt, form, args, call, net, dry>>

NextSplit == CallGetSplitRules

SpecSplit == InitSplit /\ [][NextSplit]_vars

(***************************************************************************)
(* The amount builders on their own: a minor-unit amount amt >= 0 and a   *)
(* fresh request that WithAmountMinorUnits or WithOrderAmountMinorUnits   *)
(* is called on.                                                           *)
(***************************************************************************)
MaxSmallAmount == 120

\* 2^46 * 100 + 1, 2^53 + 1, 2^63 - 1
LargeAmounts == {<<1, 0, 0, 25>>, <<1, 0, 0, 32>>, <<65535, 65535, 65535, 32767>>}

InitAmount ==
    /\ amt \in {FromInt(n) : n \in 0..MaxSmallAmount} \cup LargeAmounts
    /\ r = NewRequest("CAPTURE")
    /\ ret = NoCall
    /\ signed = FALSE
    /\ budget = 0
    /\ out = Nil
    /\ req = NoRequest
    /\ res = NoResult
    /\ form = Nil
    /\ args = <<>>
    /\ call = Nil
    /\ net = <<>>
    /\ dry = <<>>

\* r.WithAmountMinorUnits(amt)
SetAmount ==
    /\ r' = WithAmountMinorUnits(r, amt)
    /\ UNCHANGED <<ret, signed, budget, out, req, res, amt, form, args, call, net, dry>>

\* r.WithOrderAmountMinorUnits(amt)
SetOrderAmount ==
    /\ r' = WithOrderAmountMinorUnits(r, amt)
    /\ UNCHANGED <<ret, signed, budget, out, req, res, amt, form, args, call, net, dry>>

NextAmount == SetAmount \/ SetOrderAmount

SpecAmount == InitAmount /\ [][NextAmount]_vars

(***************************************************************************)
(* platon.WebhookForm: the callback record as a record of strings, a      *)
(* *WebhookForm as Nil or Ref(record).  url.Values is a function from     *)
(* keys to the first value of the key.                                     *)
(***************************************************************************)
\* the fields of WebhookForm with the form key ParseWebhookValues reads each from
WebhookFields ==
    << <<"ID", "id">>, <<"Order", "order">>, <<"Status", "status">>, <<"Card", "card">>,
       <<"Description", "description">>, <<"Amount", "amount">>, <<"Currency", "currency">>,
       <<"Name", "name">>, <<"Phone", "phone">>, <<"Email", "email">>, <<"Date", "date">>,
       <<"IP", "ip">>, <<"Sign", "sign">>, <<"RCID", "rc_id">>, <<"RCToken", "rc_token">>,
       <<"IssuingBank", "issuing_bank">>, <<"Ext1", "ext1">>, <<"Ext2", "ext2">>,
       <<"Ext3", "ext3">>, <<"Ext4", "ext4">>, <<"Ext5", "ext5">>, <<"Ext6", "ext6">>,
       <<"Ext7", "ext7">>, <<"Ext8", "ext8">>, <<"Ext9", "ext9">>, <<"Ext10", "ext10">>,
       <<"CardholderEmail", "cardholder_email">>, <<"Brand", "brand">>,
       <<"Terminal", "terminal">> >>

WebhookFieldNames == {WebhookFields[i][1] : i \in 1..Len(WebhookFields)}

\* url.Values.Get
Get(values, key) == IF key \in DOMAIN values THEN values[key] ELSE ""

\* ParseWebhookValues: every field trimmed but Name
ParseWebhookValues(values) ==
    [f \in WebhookFieldNames |->
        LET key == WebhookFields[CHOOSE i \in 1..Len(WebhookFields) : WebhookFields[i][1] = f][2]
        IN  IF f = "Name" THEN Get(values, key) ELSE TrimSpace(Get(values, key))]

\* strings.ReplaceAll(s, " ", "")
RECURSIVE RemoveSpaces(_)
RemoveSpaces(s) ==
    IF s = "" THEN ""
    ELSE IF Head(s) = " " THEN RemoveSpaces(Tail(s))
    ELSE Head(s) \o RemoveSpaces(Tail(s))

\* webhookCardSignSource: [val, err]
webhookCardSignSource(card) ==
    Let1(RemoveSpaces(TrimSpace(card)), LAMBDA normalized :
      IF Len(normalized) < 10
      THEN [val |-> "", err |-> "card value is too short to build signature"]
      ELSE [val |-> First6Last4(normalized), err |-> ""])

\* (f *WebhookForm).ExpectedSign(secret, payerEmailOverride): [val, err]
ExpectedSign(f, secret, payerEmailOverride) ==
    LET fail(msg) == [val |-> "", err |-> msg]
    IN  IF f = Nil THEN fail("webhook form is nil")
        ELSE IF TrimSpace(secret) = "" THEN fail("secret is required")
        ELSE IF TrimSpace(Deref(f).Order) = "" THEN fail("order is required")
        ELSE IF TrimSpace(Deref(f).Status) = "" THEN fail("status is required")
        ELSE IF Deref(f).Card = "" THEN fail("card is required")
        ELSE Let1(webhookCardSignSource(Deref(f).Card), LAMBDA card :
               IF card.err # "" THEN fail(card.err)
               ELSE Let1(IF TrimSpace(payerEmailOverride) = "" THEN Deref(f).Email
                         ELSE TrimSpace(payerEmailOverride),
                         LAMBDA payerEmail :
                      [val |-> MD5Hex(ToUpper(reverseString(payerEmail)
                                              \o TrimSpace(secret)
                                              \o TrimSpace(Deref(f).Order)
                                              \o reverseString(card.val)
                                              \o reverseString(TrimSpace(Deref(f).Status)))),
                       err |-> ""]))

\* strings.EqualFold on the characters the model's strings hold
EqualFold(s, t) == ToUpper(s) = ToUpper(t)

\* VerifySign comparing the sign and the expected digest letter by letter
VerifySignExact(f, secret, payerEmailOverride) ==
    IF f = Nil THEN [ok |-> FALSE, err |-> "webhook form is nil"]
    ELSE IF Deref(f).Sign = "" THEN [ok |-> FALSE, err |-> "sign is required"]
    ELSE Let1(ExpectedSign(f, secret, payerEmailOverride), LAMBDA expected :
           IF expected.err # "" THEN [ok |-> FALSE, err |-> expected.err]
           ELSE [ok |-> Deref(f).Sign = expected.val, err |-> ""])

\* (f *WebhookForm).VerifySign(secret, payerEmailOverride): [ok, err]
VerifySign(f, secret, payerEmailOverride) ==
    IF f = Nil THEN [ok |-> FALSE, err |-> "webhook form is nil"]
    ELSE IF Deref(f).Sign = "" THEN [ok |-> FALSE, err |-> "sign is required"]
    ELSE Let1(ExpectedSign(f, secret, payerEmailOverride), LAMBDA expected :
           IF expected.err # "" THEN [ok |-> FALSE, err |-> expected.err]
           ELSE [ok |-> EqualFold(Deref(f).Sign, expected.val), err |-> ""])

(***************************************************************************)
(* The webhook machine: a caller holds one *WebhookForm form, built as a  *)
(* literal or by ParseWebhookValues, and calls ExpectedSign and           *)
(* VerifySign on it.  args holds the arguments of the last call and res   *)
(* its result.                                                             *)
(***************************************************************************)
EmptyForm == [f \in WebhookFieldNames |-> ""]

\* &WebhookForm{Order: ..., Status: ..., Card: ..., Email: ..., Sign: ...}
FormOf(order, status, card, email, sign) ==
    [EmptyForm EXCEPT !.Order = order, !.Status = status, !.Card = card, !.Email = email,
                      !.Sign = sign]

CardInputs ==
    {"", " ", "1234", "411111****1111", "411111 **** 1111", "4111111111", "41111 1111",
     "4111-1111-1111", "************1111"}

SecretInputs == {"sEc", " sEc ", "", " ", "bad"}

OverrideInputs == {"", " ", "q@e.co"}

\* the digest of the callback o-1, SALE, 411111****1111, p@e.co under secret
GoodSign(secret) ==
    ExpectedSign(Ref(FormOf("o-1", "SALE", "411111****1111", "p@e.co", "")), secret, "").val

\* "", blank, the digest, the digest in upper-case hex, and a digest made with another secret
SignInputs ==
    {"", " ", GoodSign("sEc"), "MD5:" \o SubSeq(GoodSign("sEc"), 5, Len(GoodSign("sEc"))),
     GoodSign("bad")}

WebhookForms ==
    {Nil}
    \cup {Ref(FormOf("o-1", "SALE", card, email, sign)) :
            card \in CardInputs, email \in {"", "p@e.co"}, sign \in SignInputs}
    \cup {Ref(FormOf(order, status, "411111****1111", "p@e.co", GoodSign("sEc"))) :
            order \in {"o-1", " o-1", " ", ""}, status \in {"SALE", "SALE ", " ", ""}}

\* the callback of the tests, cut down
BaseValues ==
    [id |-> "47097", order |-> "o-1", status |-> "SALE", card |-> "411111****1111",
     description |-> "top up", amount |-> "0.40", currency |-> "UAH", name |-> " ",
     phone |-> "", email |-> "", date |-> "2026-02-13 10:32:57", ip |-> "250.137.176.130",
     sign |-> "582d", rc_id |-> "47097", rc_token |-> "fa05", issuing_bank |-> "JPM BANK",
     ext1 |-> "merchant-core", ext2 |-> "payments", ext3 |-> "sale", ext4 |-> "wallet-topup",
     ext10 |-> "v1", cardholder_email |-> "", brand |-> "VISA", terminal |-> ""]

\* the callback of the tests, its variants with one value padded with blanks, and no values
ValueInputs ==
    {BaseValues, <<>>}
    \cup {[BaseValues EXCEPT ![k] = " x "] : k \in DOMAIN BaseValues}
    \cup {("ext" \o n) :> " y" : n \in {"5", "6", "7", "8", "9"}}

InitWebhook ==
    /\ form \in WebhookForms
    /\ args = <<>>
    /\ res = NoResult
    /\ r = NewRequest("")
    /\ ret = NoCall
    /\ signed = FALSE
    /\ budget = 0
    /\ out = Nil
    /\ req = NoRequest
    /\ amt = <<>>
    /\ call = Nil
    /\ net = <<>>
    /\ dry = <<>>

\* form = ParseWebhookValues(values)
CallParseWebhookValues ==
    /\ \E values \in ValueInputs :
          /\ form' = Ref(ParseWebhookValues(values))
          /\ args' = [values |-> values]
    /\ res' = [op |-> "ParseWebhookValues", err |-> "", val |-> form']
    /\ UNCHANGED <<r, ret, signed, budget, out, req, amt, call, net, dry>>

\* form.ExpectedSign(secret, payerEmailOverride)
CallExpectedSign ==
    /\ \E secret \in SecretInputs, payerEmailOverride \in OverrideInputs :
          /\ args' = [secret |-> secret, payerEmailOverride |-> payerEmailOverride]
          /\ \E e \in {ExpectedSign(form, secret, payerEmailOverride)} :
                res' = [op |-> "ExpectedSign", err |-> e.err, val |-> e.val]
    /\ UNCHANGED <<r, ret, signed, budget, out, req, amt, form, call, net, dry>>

\* form.VerifySign(secret, payerEmailOverride)
CallVerifySign ==
    /\ \E secret \in SecretInputs, payerEmailOverride \in OverrideInputs :
          /\ args' = [secret |-> secret, payerEmailOverride |-> payerEmailOverride]
          /\ \E v \in {VerifySign(form, secret, payerEmailOverride)} :
                res' = [op |-> "VerifySign", err |-> v.err, val |-> v.ok]
    /\ UNCHANGED <<r, ret, signed, budget, out, req, amt, form, call, net, dry>>

NextWebhook == CallParseWebhookValues \/ CallExpectedSign \/ CallVerifySign

SpecWebhook == InitWebhook /\ [][NextWebhook]_vars

(***************************************************************************)
(* The Client-Server verification form.  The data field is the JSON text   *)
(* of clientServerVerificationData in base64; strings hold printable      *)
(* ASCII, a byte per character.                                            *)
(***************************************************************************)
\* the characters of codes 32 .. 95
AsciiLow == " !\"#$%&'()*+,-./0123456789:;<=>?@ABCDEFGHIJKLMNOPQRSTUVWXYZ[\\]^_"

\* the characters of codes 97 .. 126
AsciiHigh == "abcdefghijklmnopqrstuvwxyz{|}~"

\* the byte of a character
CodeOf(c) ==
    IF \E i \in 1..Len(AsciiLow) : At(AsciiLow, i) = c
    THEN 31 + CHOOSE i \in 1..Len(AsciiLow) : At(AsciiLow, i) = c
    ELSE 96 + CHOOSE i \in 1..Len(AsciiHigh) : At(AsciiHigh, i) = c

\* the alphabet of base64.StdEncoding
Base64Alphabet == "ABCDEFGHIJKLMNOPQRSTUVWXYZabcdefghijklmnopqrstuvwxyz0123456789+/"

Base64Char(n) == At(Base64Alphabet, n + 1)

\* base64.StdEncoding.EncodeToString of at most three bytes
encodeQuantum(s) ==
    IF s = "" THEN ""
    ELSE IF Len(s) = 1
    THEN Let1(CodeOf(At(s, 1)) * 16, LAMBDA n :
           Base64Char(n \div 64) \o Base64Char(n % 64) \o "==")
    ELSE IF Len(s) = 2
    THEN Let1(CodeOf(At(s, 1)) * 1024 + CodeOf(At(s, 2)) * 4, LAMBDA n :
           Base64Char(n \div 4096) \o Base64Char((n \div 64) % 64) \o Base64Char(n % 64) \o "=")
    ELSE Let1(CodeOf(At(s, 1)) * 65536 + CodeOf(At(s, 2)) * 256 + CodeOf(At(s, 3)), LAMBDA n :
           Base64Char(n \div 262144) \o Base64Char((n \div 4096) % 64)
               \o Base64Char((n \div 64) % 64) \o Base64Char(n % 64))

\* base64.StdEncoding.EncodeToString: the quanta of s, split at a multiple of three bytes
RECURSIVE Base64Encode(_)
Base64Encode(s) ==
    IF Len(s) <= 3 THEN encodeQuantum(s)
    ELSE Let1(3 * ((Len(s) + 5) \div 6), LAMBDA h :
           Base64Encode(SubSeq(s, 1, h)) \o Base64Encode(SubSeq(s, h + 1, Len(s))))

\* one character as encoding/json writes it in a string: ", \, <, > and & escaped
JSONEscapeChar(c) ==
    CASE c = "\"" -> "\\\""
      [] c = "\\" -> "\\\\"
      [] c = "<" -> "\\u003c"
      [] c = ">" -> "\\u003e"
      [] c = "&" -> "\\u0026"
      [] OTHER -> c

RECURSIVE JSONEscape(_)
JSONEscape(s) ==
    IF Len(s) <= 1 THEN JSONEscapeChar(s)
    ELSE JSONEscape(SubSeq(s, 1, Len(s) \div 2)) \o JSONEscape(SubSeq(s, Len(s) \div 2 + 1, Len(s)))

\* a string value as encoding/json writes it
JSONString(s) == "\"" \o JSONEscape(s) \o "\""

\* the json tags of clientServerVerificationData in field order, with omitempty or not
DataFields ==
    << <<"amount", FALSE>>, <<"description", FALSE>>, <<"currency", FALSE>>,
       <<"recurring", FALSE>>, <<"order", TRUE>>, <<"ext1", TRUE>>, <<"ext2", TRUE>>,
       <<"ext3", TRUE>>, <<"ext4", TRUE>>, <<"ext5", TRUE>>, <<"ext6", TRUE>>,
       <<"ext7", TRUE>>, <<"ext8", TRUE>>, <<"ext9", TRUE>>, <<"ext10", TRUE>> >>

\* the members of json.Marshal(data) from the i-th of the fields on, sep before the next member
RECURSIVE marshalFields(_, _, _, _)
marshalFields(fields, data, i, sep) ==
    IF i > Len(fields) THEN ""
    ELSE IF fields[i][2] /\ data[fields[i][1]] = ""
    THEN marshalFields(fields, data, i + 1, sep)
    ELSE sep \o JSONString(fields[i][1]) \o ":" \o JSONString(data[fields[i][1]])
             \o marshalFields(fields, data, i + 1, ",")

\* json.Marshal(data) had no tag of the struct omitempty
jsonMarshalNoOmit(data) ==
    "{" \o marshalFields([i \in 1..Len(DataFields) |-> <<DataFields[i][1], FALSE>>], data, 1, "")
        \o "}"

\* json.Marshal(data)
jsonMarshal(data) == "{" \o marshalFields(DataFields, data, 1, "") \o "}"

\* metadataValue
metadataValue(metadata, key) ==
    IF key \in DOMAIN metadata THEN TrimSpace(metadata[key]) ELSE ""

\* setNonEmptyFormField without its check of a blank value
setFormFieldAlways(fields, key, value) ==
    [k \in DOMAIN fields \cup {key} |-> IF k = key THEN TrimSpace(value) ELSE fields[k]]

\* setNonEmptyFormField
setNonEmptyFormField(fields, key, value) ==
    IF TrimSpace(value) = "" THEN fields
    ELSE [k \in DOMAIN fields \cup {key} |-> IF k = key THEN TrimSpace(value) ELSE fields[k]]

signClientServerVerification(clientKey, payment, data, redirectURL, secret) ==
    MD5Hex(ToUpper(reverseString(clientKey) \o reverseString(payment) \o reverseString(data)
                   \o reverseString(redirectURL) \o reverseString(secret)))

ExtKeys == <<"ext1", "ext2", "ext3", "ext4", "ext5", "ext6", "ext7", "ext8", "ext9", "ext10">>

\* the setNonEmptyFormField calls for ext1 .. ext10 from the i-th on
RECURSIVE setExtFields(_, _, _)
setExtFields(fields, data, i) ==
    IF i > Len(ExtKeys) THEN fields
    ELSE setExtFields(setNonEmptyFormField(fields, ExtKeys[i], data[ExtKeys[i]]), data, i + 1)

\* the endpoint /payment/auth of the gateway
ApiPaymentAuthURL == "https://secure.platononline.com/payment/auth"

\* platon.BuildClientServerVerificationForm(params, endpoint): [form, err]
BuildClientServerVerificationForm(params, endpoint) ==
    LET fail(msg) == [form |-> Nil, err |-> msg]
    IN  IF TrimSpace(params.ClientKey) = ""
        THEN fail("verification: merchant client_key is required")
        ELSE IF TrimSpace(params.Secret) = ""
        THEN fail("verification: merchant secret key is required")
        ELSE IF TrimSpace(params.RedirectURL) = ""
        THEN fail("verification: success redirect URL is required")
        ELSE IF TrimSpace(params.Description) = ""
        THEN fail("verification: order_description is required")
        ELSE IF TrimSpace(params.Currency) = ""
        THEN fail("verification: order_currency is required")
        ELSE IF TrimSpace(endpoint) = ""
        THEN fail("verification: endpoint is required")
        ELSE Let1([k \in {DataFields[i][1] : i \in 1..Len(DataFields)} |->
                      CASE k = "amount" -> "0.40"
                        [] k = "description" -> TrimSpace(params.Description)
                        [] k = "currency" -> TrimSpace(params.Currency)
                        [] k = "recurring" -> "Y"
                        [] k = "order" -> IF params.OrderID # Nil
                                          THEN TrimSpace(Deref(params.OrderID)) ELSE ""
                        [] OTHER -> metadataValue(params.Metadata, k)],
                  LAMBDA data :
               Let1(Base64Encode(jsonMarshal(data)), LAMBDA encodedData :
                 [form |->
                     Ref([Method   |-> "POST",
                          Endpoint |-> TrimSpace(endpoint),
                          Fields   |->
                            setExtFields(
                              [payment   |-> "CC",
                               key       |-> TrimSpace(params.ClientKey),
                               url       |-> TrimSpace(params.RedirectURL),
                               data      |-> encodedData,
                               formid    |-> "verify",
                               req_token |-> "Y",
                               sign      |-> signClientServerVerification(
                                                TrimSpace(params.ClientKey), "CC", encodedData,
                                                TrimSpace(params.RedirectURL),
                                                TrimSpace(params.Secret))],
                              data, 1)]),
                  err |-> ""]))

GetSuccessRedirect(request) ==
    IF request.Merchant = Nil THEN "" ELSE Deref(request.Merchant).SuccessRedirect

GetFailRedirect(request) ==
    IF request.Merchant = Nil THEN "" ELSE Deref(request.Merchant).FailRedirect

GetMetadata(request) ==
    IF request.PaymentData = Nil THEN <<>> ELSE Deref(request.PaymentData).Metadata

\* go_platon.BuildClientServerVerificationForm(request), request Nil or a pointer
RequestBuildClientServerVerificationForm(request) ==
    IF request = Nil THEN [form |-> Nil, err |-> "request is nil"]
    ELSE IF Deref(request).Merchant = Nil
    THEN [form |-> Nil, err |-> "verification: merchant is required for client-server flow"]
    ELSE BuildClientServerVerificationForm(
            [ClientKey   |-> GetMerchantKey(Deref(request)),
             Secret      |-> Deref(Deref(request).Merchant).SecretKey,
             RedirectURL |-> IF TrimSpace(GetSuccessRedirect(Deref(request))) = ""
                             THEN TrimSpace(GetFailRedirect(Deref(request)))
                             ELSE TrimSpace(GetSuccessRedirect(Deref(request))),
             Description |-> GetDescription(Deref(request)),
             Currency    |-> GetCurrency(Deref(request)),
             OrderID     |-> GetPaymentID(Deref(request)),
             Metadata    |-> GetMetadata(Deref(request))],
            ApiPaymentAuthURL)

(***************************************************************************)
(* The form machine: calls of the two BuildClientServerVerificationForm.  *)
(* args holds the arguments of the last call and res its result.          *)
(***************************************************************************)
\* the parameters of the package's test
BaseParams ==
    [ClientKey |-> "CLIENT_KEY", Secret |-> "SECRET_KEY", RedirectURL |-> "https://m.ex/ok",
     Description |-> "Verify card", Currency |-> "UAH", OrderID |-> Ref("order-1"),
     Metadata |-> <<>>]

ParamsInputs ==
    {[BaseParams EXCEPT !.ClientKey = key, !.Secret = secret, !.Description = description] :
        key \in {"CLIENT_KEY", " k ", " "}, secret \in {"SECRET_KEY", " s2", ""},
        description \in {"Verify card", " a \"b\" <c> ", ""}}
    \cup {[BaseParams EXCEPT !.RedirectURL = url, !.Currency = currency, !.OrderID = order,
                             !.Metadata = metadata] :
            url \in {"https://m.ex/ok", " "}, currency \in {" UAH", " "},
            order \in {Nil, Ref(" "), Ref(" order-1 ")},
            metadata \in {<<>>, [ext1 |-> "m1", ext10 |-> " v1 ", ext2 |-> " "]}}

EndpointInputs == {ApiPaymentAuthURL, " "}

\* &Request{Merchant: &Merchant{...}, PaymentData: &PaymentData{...}}
FormRequest(key, secret, success, fail, paymentID) ==
    Ref([Merchant    |-> Ref([MerchantKey |-> key, SecretKey |-> secret,
                              SuccessRedirect |-> success, FailRedirect |-> fail]),
         PaymentData |-> Ref([PaymentID |-> paymentID, Currency |-> "UAH",
                              Description |-> "Verify card", Metadata |-> <<>>])])

FormRequests ==
    {Nil, Ref([Merchant |-> Nil, PaymentData |-> Nil])}
    \cup {FormRequest(key, secret, success, fail, paymentID) :
            key \in {"CLIENT_KEY", ""}, secret \in {"SECRET_KEY", ""},
            success \in {"https://m.ex/ok", ""}, fail \in {"https://m.ex/fail", ""},
            paymentID \in {Nil, Ref("order-1")}}
    \cup {Ref([Merchant |-> Deref(FormRequest("CLIENT_KEY", "SECRET_KEY", "https://m.ex/ok", "", Nil)).Merchant,
                PaymentData |-> Nil])}

InitForm ==
    /\ args = <<>>
    /\ res = NoResult
    /\ form = Nil
    /\ r = NewRequest("")
    /\ ret = NoCall
    /\ signed = FALSE
    /\ budget = 0
    /\ out = Nil
    /\ req = NoRequest
    /\ amt = <<>>
    /\ call = Nil
    /\ net = <<>>
    /\ dry = <<>>

\* platon.BuildClientServerVerificationForm(params, endpoint)
CallBuildForm ==
    /\ \E params \in ParamsInputs, endpoint \in EndpointInputs :
          /\ args' = [params |-> params, endpoint |-> endpoint]
          /\ \E b \in {BuildClientServerVerificationForm(params, endpoint)} :
                res' = [op |-> "platon.BuildClientServerVerificationForm", err |-> b.err,
                        val |-> b.form]
    /\ UNCHANGED <<r, ret, signed, budget, out, req, amt, form, call, net, dry>>

\* go_platon.BuildClientServerVerificationForm(request)
CallRequestBuildForm ==
    /\ \E request \in FormRequests :
          /\ args' = [request |-> request]
          /\ \E b \in {RequestBuildClientServerVerificationForm(request)} :
                res' = [op |-> "go_platon.BuildClientServerVerificationForm", err |-> b.err,
                        val |-> b.form]
    /\ UNCHANGED <<r, ret, signed, budget, out, req, amt, form, call, net, dry>>

NextForm == CallBuildForm \/ CallRequestBuildForm

SpecForm == InitForm /\ [][NextForm]_vars

(***************************************************************************)
(* encoding/json on the gateway's answers.  A JSON value is a record [t,   *)
(* s, m]: t its kind, s the text of a string or of a literal, m the        *)
(* members of an object by key or the elements of an array by position     *)
(* ("0", "1", ...).  Numbers are integers, white space is the space.       *)
(***************************************************************************)
JSONNull == [t |-> "null", s |-> "null", m |-> <<>>]

NoParse == [ok |-> FALSE, v |-> JSONNull, rest |-> ""]

\* s starts with a quote: the position of the quote that closes it from i on, 0 when none does
RECURSIVE scanString(_, _)
scanString(s, i) ==
    IF i > Len(s) THEN 0
    ELSE IF At(s, i) = "\\" THEN scanString(s, i + 2)
    ELSE IF At(s, i) = "\"" THEN i
    ELSE scanString(s, i + 1)

\* the text of the inside of a JSON string
RECURSIVE unquote(_)
unquote(s) ==
    IF s = "" THEN ""
    ELSE IF Head(s) # "\\" THEN Head(s) \o unquote(Tail(s))
    ELSE IF At(s, 2) = "u"
    THEN (CASE SubSeq(s, 3, 6) = "003c" -> "<"
            [] SubSeq(s, 3, 6) = "003e" -> ">"
            [] SubSeq(s, 3, 6) = "0026" -> "&"
            [] OTHER -> "?")
         \o unquote(SubSeq(s, 7, Len(s)))
    ELSE At(s, 2) \o unquote(SubSeq(s, 3, Len(s)))

\* the length of the digits that start s
RECURSIVE digitRun(_)
digitRun(s) == IF s # "" /\ IsDigit(Head(s)) THEN 1 + digitRun(Tail(s)) ELSE 0

RECURSIVE parseValue(_)
RECURSIVE parseMembers(_, _, _)
RECURSIVE parseElements(_, _, _)

\* the members of an object after its brace or a comma: [ok, members, rest], a member [v, raw]
parseMembers(s0, acc, first) ==
    Let1(TrimLeft(s0), LAMBDA s :
      IF s = "" THEN [ok |-> FALSE, members |-> <<>>, rest |-> ""]
      ELSE IF Head(s) = "}"
      THEN [ok |-> first, members |-> acc, rest |-> Tail(s)]
      ELSE IF Head(s) # "\"" \/ scanString(s, 2) = 0
      THEN [ok |-> FALSE, members |-> <<>>, rest |-> ""]
      ELSE Let1(scanString(s, 2), LAMBDA k :
        Let1(TrimLeft(SubSeq(s, k + 1, Len(s))), LAMBDA colon :
          IF colon = "" \/ Head(colon) # ":"
          THEN [ok |-> FALSE, members |-> <<>>, rest |-> ""]
          ELSE Let1(TrimLeft(Tail(colon)), LAMBDA start :
            Let1(parseValue(start), LAMBDA p :
              IF ~p.ok THEN [ok |-> FALSE, members |-> <<>>, rest |-> ""]
              ELSE Let1((unquote(SubSeq(s, 2, k - 1)) :>
                            [v |-> p.v, raw |-> SubSeq(start, 1, Len(start) - Len(p.rest))])
                        @@ acc, LAMBDA members :
                Let1(TrimLeft(p.rest), LAMBDA after :
                  IF after # "" /\ Head(after) = ","
                  THEN IF TrimLeft(Tail(after)) # "" /\ Head(TrimLeft(Tail(after))) = "}"
                       THEN [ok |-> FALSE, members |-> <<>>, rest |-> ""]
                       ELSE parseMembers(Tail(after), members, FALSE)
                  ELSE IF after # "" /\ Head(after) = "}"
                  THEN [ok |-> TRUE, members |-> members, rest |-> Tail(after)]
                  ELSE [ok |-> FALSE, members |-> <<>>, rest |-> ""])))))))

\* the elements of an array after its bracket or a comma: [ok, members, rest]
parseElements(s0, acc, first) ==
    Let1(TrimLeft(s0), LAMBDA s :
      IF s = "" THEN [ok |-> FALSE, members |-> <<>>, rest |-> ""]
      ELSE IF Head(s) = "]"
      THEN [ok |-> first, members |-> acc, rest |-> Tail(s)]
      ELSE Let1(parseValue(s), LAMBDA p :
        IF ~p.ok \/ Cardinality(DOMAIN acc) >= 10
        THEN [ok |-> FALSE, members |-> <<>>, rest |-> ""]
        ELSE Let1((Digits[Cardinality(DOMAIN acc) + 1] :> p.v) @@ acc, LAMBDA members :
          Let1(TrimLeft(p.rest), LAMBDA after :
            IF after # "" /\ Head(after) = ","
            THEN IF TrimLeft(Tail(after)) # "" /\ Head(TrimLeft(Tail(after))) = "]"
                 THEN [ok |-> FALSE, members |-> <<>>, rest |-> ""]
                 ELSE parseElements(Tail(after), members, FALSE)
            ELSE IF after # "" /\ Head(after) = "]"
            THEN [ok |-> TRUE, members |-> members, rest |-> Tail(after)]
            ELSE [ok |-> FALSE, members |-> <<>>, rest |-> ""]))))

\* the JSON value that starts s: [ok, v, rest]
parseValue(s0) ==
    Let1(TrimLeft(s0), LAMBDA s :
      IF s = "" THEN NoParse
      ELSE IF Head(s) = "{"
      THEN Let1(parseMembers(Tail(s), <<>>, TRUE), LAMBDA p :
             IF ~p.ok THEN NoParse
             ELSE [ok |-> TRUE, rest |-> p.rest,
                   v |-> [t |-> "object", s |-> "",
                          m |-> [k \in DOMAIN p.members |-> p.members[k].v]]])
      ELSE IF Head(s) = "["
      THEN Let1(parseElements(Tail(s), <<>>, TRUE), LAMBDA p :
             IF ~p.ok THEN NoParse
             ELSE [ok |-> TRUE, rest |-> p.rest,
                   v |-> [t |-> "array", s |-> "", m |-> p.members]])
      ELSE IF Head(s) = "\""
      THEN Let1(scanString(s, 2), LAMBDA k :
             IF k = 0 THEN NoParse
             ELSE [ok |-> TRUE, rest |-> SubSeq(s, k + 1, Len(s)),
                   v |-> [t |-> "string", s |-> unquote(SubSeq(s, 2, k - 1)), m |-> <<>>]])
      ELSE IF HasPrefix(s, "null")
      THEN [ok |-> TRUE, rest |-> SubSeq(s, 5, Len(s)), v |-> JSONNull]
      ELSE IF HasPrefix(s, "true")
      THEN [ok |-> TRUE, rest |-> SubSeq(s, 5, Len(s)),
            v |-> [t |-> "bool", s |-> "true", m |-> <<>>]]
      ELSE IF HasPrefix(s, "false")
      THEN [ok |-> TRUE, rest |-> SubSeq(s, 6, Len(s)),
            v |-> [t |-> "bool", s |-> "false", m |-> <<>>]]
      ELSE Let1(IF Head(s) = "-" THEN 1 ELSE 0, LAMBDA sign :
             Let1(digitRun(SubSeq(s, sign + 1, Len(s))), LAMBDA n :
               IF n = 0 THEN NoParse
               ELSE [ok |-> TRUE, rest |-> SubSeq(s, sign + n + 1, Len(s)),
                     v |-> [t |-> "number", s |-> SubSeq(s, 1, sign + n), m |-> <<>>]])))

\* json.Unmarshal(data, &decoded), decoded an interface{}: [ok, v]
jsonUnmarshal(data) ==
    Let1(parseValue(data), LAMBDA p :
      IF p.ok /\ TrimLeft(p.rest) = "" THEN [ok |-> TRUE, v |-> p.v]
      ELSE [ok |-> FALSE, v |-> JSONNull])

\* the order of strings by their bytes
RECURSIVE StrLess(_, _)
StrLess(a, b) ==
    IF a = "" THEN b # ""
    ELSE IF b = "" THEN FALSE
    ELSE IF Head(a) = Head(b) THEN StrLess(Tail(a), Tail(b))
    ELSE CodeOf(Head(a)) < CodeOf(Head(b))

RECURSIVE marshalValue(_)
RECURSIVE marshalMap(_, _, _)
RECURSIVE marshalSlice(_, _)

\* the members of a map under the keys left, in the order of the keys
marshalMap(m, left, sep) ==
    IF left = {} THEN ""
    ELSE Let1(CHOOSE k \in left : \A other \in left \ {k} : StrLess(k, other), LAMBDA k :
           sep \o JSONString(k) \o ":" \o marshalValue(m[k]) \o marshalMap(m, left \ {k}, ","))

\* the elements of a slice from the i-th on
marshalSlice(m, i) ==
    IF i > Cardinality(DOMAIN m) THEN ""
    ELSE (IF i > 1 THEN "," ELSE "") \o marshalValue(m[Digits[i]]) \o marshalSlice(m, i + 1)

\* json.Marshal(decoded), decoded an interface{}
marshalValue(v) ==
    CASE v.t = "object" -> "{" \o marshalMap(v.m, DOMAIN v.m, "") \o "}"
      [] v.t = "array" -> "[" \o marshalSlice(v.m, 1) \o "]"
      [] v.t = "string" -> JSONString(v.s)
      [] OTHER -> v.s

(***************************************************************************)
(* platon.Response: [Status, Action, Result, OrderId, TransId, TransDate, *)
(* ResponseData, ErrorMessage, DeclineReason], ResponseData a pointer to  *)
(* [SubmerchantID, SubmerchantIDStatus, Hash].                             *)
(***************************************************************************)
EmptyResponse ==
    [Status |-> Nil, Action |-> Nil, Result |-> Nil, OrderId |-> Nil, TransId |-> Nil,
     TransDate |-> Nil, ResponseData |-> Nil, ErrorMessage |-> "", DeclineReason |-> ""]

\* normalizeOptionalResponseString without the second decoding: the text as it arrived
normalizeKeepsText(raw0) ==
    Let1(TrimSpace(raw0), LAMBDA raw :
      IF raw = "" \/ raw = "null" THEN [val |-> "", err |-> ""]
      ELSE Let1(jsonUnmarshal(raw), LAMBDA text :
        IF text.ok /\ text.v.t = "string" THEN [val |-> TrimSpace(text.v.s), err |-> ""]
        ELSE IF ~text.ok THEN [val |-> "", err |-> "invalid character"]
        ELSE [val |-> raw, err |-> ""]))

\* normalizeOptionalResponseString: [val, err]
normalizeOptionalResponseString(raw0) ==
    Let1(TrimSpace(raw0), LAMBDA raw :
      IF raw = "" \/ raw = "null" THEN [val |-> "", err |-> ""]
      ELSE Let1(jsonUnmarshal(raw), LAMBDA text :
        IF text.ok /\ text.v.t = "string" THEN [val |-> TrimSpace(text.v.s), err |-> ""]
        ELSE IF ~text.ok THEN [val |-> "", err |-> "invalid character"]
        ELSE [val |-> TrimSpace(marshalValue(text.v)), err |-> ""]))

\* the raw text under key of the members of an object, "" when absent
RawOf(members, key) == IF key \in DOMAIN members THEN members[key].raw ELSE ""

\* json.Unmarshal into a *string field: [ok, p]
stringField(members, key) ==
    IF key \notin DOMAIN members \/ members[key].v.t = "null" THEN [ok |-> TRUE, p |-> Nil]
    ELSE IF members[key].v.t = "string" THEN [ok |-> TRUE, p |-> Ref(members[key].v.s)]
    ELSE [ok |-> FALSE, p |-> Nil]

\* json.Unmarshal into the *ResponseData field: [ok, p]
responseDataField(members) ==
    IF "response" \notin DOMAIN members \/ members["response"].v.t = "null"
    THEN [ok |-> TRUE, p |-> Nil]
    ELSE IF members["response"].v.t # "object" THEN [ok |-> FALSE, p |-> Nil]
    ELSE Let1([k \in DOMAIN members["response"].v.m |->
                  [v |-> members["response"].v.m[k], raw |-> ""]], LAMBDA inner :
           [ok |-> /\ stringField(inner, "submerchant_id").ok
                   /\ stringField(inner, "submerchant_id_status").ok
                   /\ stringField(inner, "hash").ok,
            p  |-> Ref([SubmerchantID       |-> stringField(inner, "submerchant_id").p,
                        SubmerchantIDStatus |-> stringField(inner, "submerchant_id_status").p,
                        Hash                |-> stringField(inner, "hash").p])])

\* Response.UnmarshalJSON behind UnmarshalJSONResponse(data): [resp, err]
UnmarshalJSONResponse(data) ==
    LET fail(msg) == [resp |-> Nil, err |-> "error unmarshalling JSON response: " \o msg]
        topStrings == {"status", "action", "result", "order_id", "trans_id", "trans_date",
                       "submerchant_id", "submerchant_id_status", "hash"}
    IN  Let1(parseValue(data), LAMBDA doc :
          IF ~doc.ok \/ TrimLeft(doc.rest) # "" THEN fail("invalid character")
          ELSE IF doc.v.t = "null" THEN [resp |-> Ref(EmptyResponse), err |-> ""]
          ELSE IF doc.v.t # "object" THEN fail("cannot unmarshal into Go value")
          ELSE Let1(parseMembers(Tail(TrimLeft(data)), <<>>, TRUE).members, LAMBDA raw :
            Let1(responseDataField(raw), LAMBDA nested :
              IF ~nested.ok \/ \E k \in topStrings : ~stringField(raw, k).ok
              THEN fail("cannot unmarshal into Go struct field")
              ELSE Let1(normalizeOptionalResponseString(RawOf(raw, "error_message")),
                        LAMBDA errorMessage :
                IF errorMessage.err # ""
                THEN fail("decode error_message: " \o errorMessage.err)
                ELSE Let1(normalizeOptionalResponseString(RawOf(raw, "decline_reason")),
                          LAMBDA declineReason :
                  IF declineReason.err # ""
                  THEN fail("decode decline_reason: " \o declineReason.err)
                  ELSE LET top(k) == stringField(raw, k).p
                           flat == [SubmerchantID       |-> top("submerchant_id"),
                                    SubmerchantIDStatus |-> top("submerchant_id_status"),
                                    Hash                |-> top("hash")]
                           responseData ==
                               IF nested.p = Nil
                               THEN IF flat.SubmerchantID # Nil \/ flat.SubmerchantIDStatus # Nil
                                       \/ flat.Hash # Nil
                                    THEN Ref(flat) ELSE Nil
                               ELSE Ref([k \in DOMAIN flat |->
                                           IF Deref(nested.p)[k] = Nil THEN flat[k]
                                           ELSE Deref(nested.p)[k]])
                       IN  [resp |-> Ref([Status        |-> top("status"),
                                          Action        |-> top("action"),
                                          Result        |-> top("result"),
                                          OrderId       |-> top("order_id"),
                                          TransId       |-> top("trans_id"),
                                          TransDate     |-> top("trans_date"),
                                          ResponseData  |-> responseData,
                                          ErrorMessage  |-> errorMessage.val,
                                          DeclineReason |-> declineReason.val]),
                            err |-> ""])))))

\* Response.GetError, "" for a nil error; p Nil or a pointer
GetError(p) ==
    IF p = Nil THEN ""
    ELSE IF TrimSpace(Deref(p).ErrorMessage) # ""
    THEN "platon api error: " \o TrimSpace(Deref(p).ErrorMessage)
    ELSE IF TrimSpace(Deref(p).DeclineReason) # ""
    THEN "platon api declined: " \o TrimSpace(Deref(p).DeclineReason)
    ELSE IF Deref(p).Result = Nil THEN ""
    ELSE CASE ToUpper(TrimSpace(Deref(Deref(p).Result))) = "ERROR" -> "unknown platon api error"
           [] ToUpper(TrimSpace(Deref(Deref(p).Result))) = "DECLINED" ->
                 "unknown platon api decline"
           [] OTHER -> ""

\* Response.SubmerchantIDStatus: [val, ok]
SubmerchantIDStatus(p) ==
    IF p = Nil \/ Deref(p).ResponseData = Nil
       \/ Deref(Deref(p).ResponseData).SubmerchantIDStatus = Nil
    THEN [val |-> "", ok |-> FALSE]
    ELSE [val |-> Deref(Deref(Deref(p).ResponseData).SubmerchantIDStatus), ok |-> TRUE]

(***************************************************************************)
(* The transport, internal/http Client.  What c.client.Do and the reading *)
(* of the body come to is an outcome [kind, status, text, pad]: kind       *)
(* "error" (Do failed), "nil response", "nil body", "read error" or        *)
(* "response", with the status code and a body of text followed by pad     *)
(* spaces.  The posted form is kept as the map of the signed request; its  *)
(* encoding as application/x-www-form-urlencoded text is not modelled.     *)
(***************************************************************************)
maxResponseBodyBytes == 4194304

\* strconv.Itoa of a natural number
RECURSIVE Itoa(_)
Itoa(n) == IF n < 10 THEN Digits[n + 1] ELSE Itoa(n \div 10) \o Digits[(n % 10) + 1]

\* sendURLEncodedRequest up to the request it is about to send: [err, form]
sendPrepare(unsignedRequest) ==
    IF unsignedRequest = Nil THEN [err |-> "request is nil", form |-> <<>>]
    ELSE Let1(SignAndPrepare(Deref(unsignedRequest), <<>>), LAMBDA s :
           IF s.err # "" THEN [err |-> s.err, form |-> <<>>]
           ELSE [err |-> "", form |-> ToMap(s.r)])

\* sendURLEncodedRequest from the return of c.client.Do on, were the status looked at first
sendReceiveStatusFirst(outcome) ==
    LET fail(msg) == [resp |-> Nil, err |-> msg]
    IN  CASE outcome.kind = "error" -> fail("cannot send request")
          [] outcome.kind = "nil response" -> fail("http response is nil")
          [] outcome.kind = "nil body" -> fail("http response body is nil")
          [] outcome.kind = "read error" -> fail("cannot read response")
          [] OTHER ->
               IF outcome.status < 200 \/ outcome.status >= 300
               THEN fail("status=" \o Itoa(outcome.status) \o " body=" \o outcome.text)
               ELSE IF Len(outcome.text) + outcome.pad = 0 THEN fail("empty response")
               ELSE IF Len(outcome.text) + outcome.pad > maxResponseBodyBytes
               THEN fail("response exceeds " \o Itoa(maxResponseBodyBytes) \o " bytes")
               ELSE Let1(UnmarshalJSONResponse(outcome.text), LAMBDA u :
                      IF u.err # "" THEN fail(u.err)
                      ELSE [resp |-> u.resp, err |-> GetError(u.resp)])

\* sendURLEncodedRequest from the return of c.client.Do on: [resp, err]
sendReceive(outcome) ==
    LET fail(msg) == [resp |-> Nil, err |-> msg]
    IN  CASE outcome.kind = "error" -> fail("cannot send request")
          [] outcome.kind = "nil response" -> fail("http response is nil")
          [] outcome.kind = "nil body" -> fail("http response body is nil")
          [] outcome.kind = "read error" -> fail("cannot read response")
          [] OTHER ->
               IF Len(outcome.text) + outcome.pad = 0 THEN fail("empty response")
               ELSE IF Len(outcome.text) + outcome.pad > maxResponseBodyBytes
               THEN fail("response exceeds " \o Itoa(maxResponseBodyBytes) \o " bytes")
               ELSE IF outcome.status < 200 \/ outcome.status >= 300
               THEN fail("status=" \o Itoa(outcome.status) \o " body=" \o outcome.text)
               ELSE Let1(UnmarshalJSONResponse(outcome.text), LAMBDA u :
                      IF u.err # "" THEN fail(u.err)
                      ELSE [resp |-> u.resp, err |-> GetError(u.resp)])

(***************************************************************************)
(* The transport machine: a caller of Api, of UnmarshalJSONResponse and of *)
(* GetError.  A call of Api is two steps, split where the gateway acts:    *)
(* ApiBegin signs and encodes, ApiSend posts and handles the answer.  call *)
(* is the call in progress, a pointer to [op, request, url, client, form,  *)
(* dryRun]; net is the sequence of the POSTs made, each [url, form, call], *)
(* call the number of the call that made it; budget counts the calls left. *)
(***************************************************************************)
MaxApiCalls == 2

BodyTexts ==
    { "{\"result\":\"ERROR\",\"error_message\":{\"field\":\"Wrong cardholder_email\"}}",
      "{\"result\":\"ACCEPTED\",\"error_message\":null}",
      "{\"result\":\"ACCEPTED\"}",
      "{\"result\":\"DECLINED\",\"decline_reason\":\"102: Token is not active\",\"error_message\":null}",
      "{\"result\":\" declined \"}",
      "{\"result\":\"error\"}",
      "{\"result\":\"PENDING\",\"error_message\":\"  \"}",
      "{\"result\":\"ACCEPTED\",\"error_message\":\" bad \",\"decline_reason\":\"why\"}",
      "{\"result\":\"ERROR\",\"error_message\": { \"b\" : [1, true] , \"a\" : \"x y\" } }",
      "{\"result\":\"ACCEPTED\",\"decline_reason\":{\"code\":7}}",
      "{\"error_message\":\"no result\"}",
      "{\"status\":\"SUCCESS\",\"action\":\"GET_SUBMERCHANT\",\"submerchant_id\":\"123456789\",\"submerchant_id_status\":\"LOCKED\",\"hash\":\"abc123\"}",
      "{\"status\":\"SUCCESS\",\"submerchant_id_status\":\"ENABLED\"}",
      "{\"status\":\"SUCCESS\",\"response\":{\"submerchant_id_status\":\"enabled\"}}",
      "{\"status\":\"SUCCESS\",\"submerchant_id_status\":\"DISABLED\"}",
      "{\"status\":\"FAILED\"}",
      "{\"result\":\"ACCEPTED\"",
      "{\"result\":5}",
      "gateway down" }

AcceptedText == "{\"result\":\"ACCEPTED\"}"

DeclinedText == "{\"result\":\" declined \"}"

Outcomes ==
    {[kind |-> k, status |-> 0, text |-> "", pad |-> 0] :
        k \in {"error", "nil response", "nil body", "read error"}}
    \cup {[kind |-> "response", status |-> 200, text |-> text, pad |-> 0] : text \in BodyTexts}
    \cup {[kind |-> "response", status |-> status, text |-> body[1], pad |-> body[2]] :
            status \in {199, 200, 299, 300, 502},
            body \in {<<"", 0>>, <<AcceptedText, 0>>, <<DeclinedText, 0>>, <<"gateway down", 0>>,
                      <<AcceptedText, maxResponseBodyBytes - Len(AcceptedText)>>,
                      <<AcceptedText, maxResponseBodyBytes>>,
                      <<"", maxResponseBodyBytes + 16>>}}

\* the requests handed to Api: nil, well formed, of a bad amount, without auth
ApiRequests ==
    {Nil, Ref(TestRequest("card_token_payment", "1.00")),
     Ref(TestRequest("card_token_payment", "1000")),
     Ref(WithAuth(TestRequest("card_token_payment", "1.00"), Nil))}

\* responses put together by hand
BuiltResponses ==
    {Nil, Ref(EmptyResponse), Ref([EmptyResponse EXCEPT !.Result = Ref("DECLINED")]),
     Ref([EmptyResponse EXCEPT !.Result = Ref("ACCEPTED"), !.DeclineReason = " "])}

NoOutcome == [kind |-> "", status |-> 0, text |-> "", pad |-> 0]

InitApi ==
    /\ call = Nil
    /\ net = <<>>
    /\ dry = <<>>
    /\ res = NoResult
    /\ args = <<>>
    /\ budget = MaxApiCalls
    /\ r = NewRequest("")
    /\ ret = NoCall
    /\ signed = FALSE
    /\ out = Nil
    /\ req = NoRequest
    /\ amt = <<>>
    /\ form = Nil

\* c.Api(apiRequest, apiURL) up to c.client.Do
ApiBegin ==
    /\ call = Nil
    /\ budget > 0
    /\ budget' = budget - 1
    /\ \E apiRequest \in ApiRequests, client \in BOOLEAN :
          \E p \in {sendPrepare(apiRequest)} :
              /\ args' = [request |-> apiRequest, client |-> client, outcome |-> NoOutcome,
                          text |-> ""]
              /\ IF p.err # ""
                 THEN /\ res' = [op |-> "Api", err |-> p.err, val |-> Nil]
                      /\ call' = Nil
                 ELSE /\ res' = NoResult
                      /\ call' = Ref([op |-> "Api", request |-> apiRequest,
                                      url |-> "https://secure.platononline.com/post",
                                      client |-> client, form |-> p.form])
    /\ UNCHANGED <<r, ret, signed, out, req, amt, form, net, dry>>

\* c.Api from c.client.Do on, were a failed exchange sent once more
ApiSendRetrying ==
    /\ call # Nil
    /\ Deref(call).op = "Api"
    /\ IF ~Deref(call).client
       THEN /\ res' = [op |-> "Api", err |-> "http client is nil", val |-> Nil]
            /\ UNCHANGED <<net, args>>
       ELSE \E outcome \in Outcomes, post \in {[url |-> Deref(call).url,
                                                form |-> Deref(call).form,
                                                call |-> MaxApiCalls - budget]} :
               /\ args' = [args EXCEPT !.outcome = outcome]
               /\ \E g \in {sendReceive(outcome)} :
                     /\ res' = [op |-> "Api", err |-> g.err, val |-> g.resp]
                     /\ net' = IF g.err = "" THEN Append(net, post)
                               ELSE Append(Append(net, post), post)
    /\ call' = Nil
    /\ UNCHANGED <<r, ret, signed, budget, out, req, amt, form, dry>>

\* c.Api from c.client.Do on: one POST, and the handling of what comes back
ApiSend ==
    /\ call # Nil
    /\ Deref(call).op = "Api"
    /\ IF ~Deref(call).client
       THEN /\ res' = [op |-> "Api", err |-> "http client is nil", val |-> Nil]
            /\ UNCHANGED <<net, args>>
       ELSE /\ net' = Append(net, [url |-> Deref(call).url, form |-> Deref(call).form,
                                   call |-> MaxApiCalls - budget])
            /\ \E outcome \in Outcomes :
                  /\ args' = [args EXCEPT !.outcome = outcome]
                  /\ \E g \in {sendReceive(outcome)} :
                        res' = [op |-> "Api", err |-> g.err, val |-> g.resp]
    /\ call' = Nil
    /\ UNCHANGED <<r, ret, signed, budget, out, req, amt, form, dry>>

\* platon.UnmarshalJSONResponse(data)
CallUnmarshalJSONResponse ==
    /\ call = Nil
    /\ \E text \in BodyTexts :
          /\ args' = [request |-> Nil, client |-> FALSE, outcome |-> NoOutcome, text |-> text]
          /\ \E u \in {UnmarshalJSONResponse(text)} :
                res' = [op |-> "UnmarshalJSONResponse", err |-> u.err, val |-> u.resp]
    /\ UNCHANGED <<r, ret, signed, budget, out, req, amt, form, call, net, dry>>

\* p.GetError(), p the response decoded last or one put together by hand
CallGetError ==
    /\ call = Nil
    /\ \/ /\ res.op = "UnmarshalJSONResponse" /\ res.err = ""
          /\ res' = [op |-> "GetError", err |-> GetError(res.val), val |-> res.val]
          /\ UNCHANGED args
       \/ \E p \in BuiltResponses :
             /\ res' = [op |-> "GetError", err |-> GetError(p), val |-> p]
             /\ args' = [request |-> Nil, client |-> FALSE, outcome |-> NoOutcome, text |-> ""]
    /\ UNCHANGED <<r, ret, signed, budget, out, req, amt, form, call, net, dry>>

NextApi == ApiBegin \/ ApiSend \/ CallUnmarshalJSONResponse \/ CallGetError

SpecApi == InitApi /\ [][NextApi]_vars

(***************************************************************************)
(* What the properties below are stated with: the recipe table, and exact  *)
(* (unbounded) reading and writing of two-decimal amounts.                 *)
(***************************************************************************)
TransIDTypes == {"get_trans_status", "capture", "creditvoid"}

SplitTypes == {"card_payment", "card_token_payment", "apple_pay", "google_pay",
               "recurring", "capture", "creditvoid"}

NoSplitTypes == {"credit2card", "credit2card_token", "get_submerchant"}

\* the Request fields a kind's recipe row names, the secret aside
RecipeFields(t) ==
    CASE t \in {"verification", "card_payment"} -> {"PayerEmail", "CardNumber"}
      [] t \in {"card_token_payment", "recurring"} -> {"PayerEmail", "CardToken"}
      [] t \in {"apple_pay", "google_pay"} -> {"PayerEmail", "PaymentToken"}
      [] t \in TransIDTypes -> {"PayerEmail", "HashEmail", "TransId"}
      [] t = "get_trans_status_by_order" -> {"OrderID"}
      [] t = "get_submerchant" -> {"SubmerchantID"}
      [] t = "credit2card" -> {"CardNumber"}
      [] t = "credit2card_token" -> {"CardToken"}
      [] OTHER -> {}

\* q with every field outside its kind, its secret and its recipe row reset to zero
RecipeOnly(q) ==
    [f \in DOMAIN q |->
        IF f = "HashType" \/ f \in RecipeFields(q.HashType) THEN q[f]
        ELSE IF f = "Auth"
        THEN IF q.Auth = Nil THEN Nil ELSE Ref([Key |-> "", Secret |-> Deref(q.Auth).Secret])
        ELSE NewRequest("")[f]]

\* the email of the e-mail bearing recipes: the override when there is one
SigningEmail(q) ==
    IF q.HashEmail # Nil THEN Deref(q.HashEmail)
    ELSE IF q.PayerEmail # Nil THEN Deref(q.PayerEmail)
    ELSE ""

\* the amount field a kind's split rules are measured against
AmountOf(q) ==
    IF q.HashType \in {"capture", "creditvoid", "credit2card", "credit2card_token"}
    THEN q.Amount
    ELSE q.OrderAmount

\* the digits of s read as one natural number of any size, a "." skipped
RECURSIVE ExactNat(_, _)
ExactNat(s, acc) ==
    IF s = "" THEN acc
    ELSE IF Head(s) = "." THEN ExactNat(Tail(s), acc)
    ELSE Let1(AddSmall(MulSmall(acc, 10), DigitValue(Head(s))),
              LAMBDA a : ExactNat(Tail(s), a))

\* the minor units a two-decimal amount string stands for, without any wrap-around
ExactMinorUnits(s) == ExactNat(s, <<>>)

\* the exact sum of the rule amounts of a SplitRules map
RECURSIVE ExactRuleSum(_, _)
ExactRuleSum(rules, ids) ==
    IF ids = {} THEN <<>>
    ELSE LET id == CHOOSE x \in ids : TRUE
         IN  Add(ExactMinorUnits(rules[id]), ExactRuleSum(rules, ids \ {id}))

\* every rule of a SplitRules map is well formed and the rules sum exactly to amount
RulesExact(rules, amount) ==
    /\ \A id \in DOMAIN rules :
          /\ TrimSpace(id) # ""
          /\ orderAmountRe(rules[id])
          /\ ExactMinorUnits(rules[id]) # <<>>
    /\ orderAmountRe(amount)
    /\ ExactRuleSum(rules, DOMAIN rules) = ExactMinorUnits(amount)

\* a >= 0 written as a / 100 with two decimals, in exact integer arithmetic
ExactTwoDecimals(a) ==
    Let1(ToDigits(a), LAMBDA d :
      Let1(IF Len(d) >= 3 THEN d ELSE SubSeq("000", 1, 3 - Len(d)) \o d, LAMBDA p :
        SubSeq(p, 1, Len(p) - 2) \o "." \o SubSeq(p, Len(p) - 1, Len(p))))

\* the exact sum of the amounts of a list of split rules, all of them > 0
RECURSIVE ExactListSum(_, _)
ExactListSum(rules, i) ==
    IF i > Len(rules) THEN <<>> ELSE Add(rules[i].Amount, ExactListSum(rules, i + 1))

\* the conditions under which GetSplitRules is to succeed
ValidSplit(request) ==
    LET pd    == Deref(request.PaymentData)
        rules == pd.SplitRules
        id(i) == TrimSpace(rules[i].SubmerchantIdentification)
    IN  /\ IsPos64(pd.Amount)
        /\ \A i \in 1..Len(rules) : id(i) # "" /\ IsPos64(rules[i].Amount)
        /\ \A i, j \in 1..Len(rules) : i # j => id(i) # id(j)
        /\ ExactListSum(rules, 1) = pd.Amount

\* the mapping GetSplitRules is to return for a valid request
ExactMapping(request) ==
    LET rules == Deref(request.PaymentData).SplitRules
        id(i) == TrimSpace(rules[i].SubmerchantIdentification)
    IN  [x \in {id(i) : i \in 1..Len(rules)} |->
            ExactTwoDecimals(rules[CHOOSE i \in 1..Len(rules) : id(i) = x].Amount)]

(***************************************************************************)
(* The properties                                                          *)
(***************************************************************************)

C3_AllOrNothing ==
    (ret.op = "SignAndPrepare" /\ ret.err # "") => r = ret.arg

\* C4: once SignAndPrepare has succeeded on a request, the hash ToMap
\* returns is the digest of the fields the request holds at that moment.
C4_HashMatchesFields ==
    (signed /\ ret.op = "ToMap") =>
        /\ "hash" \in DOMAIN Deref(out)
        /\ Deref(out)["hash"] = generateByHashType(r).sign

\* C5: the map ToMap returns has no key of the secret, the Auth pair, the
\* hash type or hash_email, holds the secret under no key, and holds no
\* empty value.
C5_MapHoldsOnlyWireValues ==
    (ret.op = "ToMap") =>
        LET m == Deref(out)
        IN  /\ DOMAIN m \cap {"auth", "secret", "key", "hash_type", "hash_email", "-", ""} = {}
            /\ \A k \in DOMAIN m \ {"split_rules"} :
                  /\ m[k] # ""
                  /\ (r.Auth # Nil /\ Deref(r.Auth).Secret # "") => m[k] # Deref(r.Auth).Secret
            /\ "split_rules" \in DOMAIN m => DOMAIN m["split_rules"] # {}

\* C6: under the kinds that accept split rules, SignAndPrepare succeeds on
\* a request with split rules only if the rule amounts sum exactly to the
\* request's amount, and ToMap of a request with split rules has split_rules.
C6_SplitSumExact ==
    /\ (ret.op = "SignAndPrepare" /\ ret.err = "" /\ r.HashType \in SplitTypes
            /\ DOMAIN r.SplitRules # {}) =>
          /\ \A id \in DOMAIN r.SplitRules : orderAmountRe(r.SplitRules[id])
          /\ ExactRuleSum(r.SplitRules, DOMAIN r.SplitRules) = ExactMinorUnits(AmountOf(r))
    /\ (ret.op = "ToMap" /\ DOMAIN r.SplitRules # {}) => "split_rules" \in DOMAIN Deref(out)

\* C7: under every kind, a request SignAndPrepare succeeds on has no split
\* rules or has rules with non-blank recipients and positive two-decimal
\* amounts that sum exactly to its amount.
C7_NoUncheckedSplitRules ==
    (ret.op = "SignAndPrepare" /\ ret.err = "" /\ DOMAIN r.SplitRules # {}) =>
        RulesExact(r.SplitRules, AmountOf(r))

\* C8: under credit2card, credit2card_token and get_submerchant
\* SignAndPrepare fails on every request with a split rule, and Credit
\* fails, posting nothing, on every request whose PaymentData has a split rule.
C8_SplitRulesForbidden ==
    /\ (ret.op = "SignAndPrepare" /\ ret.arg.HashType \in NoSplitTypes
            /\ DOMAIN ret.arg.SplitRules # {}) => ret.err # ""
    /\ (res.op = "Credit" /\ req.PaymentData # Nil
            /\ Deref(req.PaymentData).SplitRules # <<>>) => (res.err # "" /\ res.val = Nil)

\* a payout with a split rule refused by SignAndPrepare, and a Credit call
\* with a split rule refused
C8_Witness ==
    /\ ret.op = "SignAndPrepare"
    /\ ret.arg.HashType = "credit2card_token" /\ DOMAIN ret.arg.SplitRules # {}
    /\ ret.err = "credit2card_token: split_rules are not allowed"
    /\ res.op = "Credit"
    /\ req.PaymentData # Nil /\ Deref(req.PaymentData).SplitRules # <<>>
    /\ res.err = "credit: split rules are not supported for CREDIT2CARD"

\* C9: on a request with split rules GetSplitRules succeeds exactly when
\* the total is > 0, the recipients are non-blank and distinct after
\* trimming, the amounts are > 0 and sum to the total; on success it maps
\* every recipient to its amount / 100 with two decimals; a second call
\* returns the same.
C9_GetSplitRules ==
    (res.op = "GetSplitRules" /\ Deref(req.PaymentData).SplitRules # <<>>) =>
        /\ res.err = "" <=> ValidSplit(req)
        /\ res.err = "" => res.val = ExactMapping(req)
        /\ GetSplitRules(req) = [err |-> res.err, rules |-> res.val]

\* C10: the string WithAmountMinorUnits(a) and WithOrderAmountMinorUnits(a)
\* write for a >= 0 matches digits "." two digits and
\* parseOrderAmountMinorUnits of it is a.
C10_RoundTrip ==
    /\ r.Amount # "" =>
          /\ orderAmountRe(r.Amount)
          /\ parseOrderAmountMinorUnits(r.Amount) = [err |-> FALSE, v |-> amt]
    /\ r.OrderAmount # "" =>
          /\ orderAmountRe(r.OrderAmount)
          /\ parseOrderAmountMinorUnits(r.OrderAmount) = [err |-> FALSE, v |-> amt]

\* the kinds whose validation requires an amount
AmountTypes ==
    {"card_payment", "card_token_payment", "apple_pay", "google_pay", "recurring",
     "capture", "creditvoid", "credit2card", "credit2card_token"}

\* s is one or more digits, a "." and two digits
TwoDecimalPattern(s) ==
    \E i \in 2..Len(s) :
        /\ SubSeq(s, i, i) = "."
        /\ Len(s) = i + 2
        /\ AllDigits(SubSeq(s, 1, i - 1))
        /\ AllDigits(SubSeq(s, i + 1, Len(s)))

\* C11: under every kind that requires an amount SignAndPrepare succeeds
\* only on an amount of digits, "." and two digits whose value
\* major * 100 + minor is > 0; "", "1000", "1.0", "-1.00" and "0.00" fail.
C11_AmountRequired ==
    (ret.op = "SignAndPrepare" /\ ret.arg.HashType \in AmountTypes) =>
        /\ ret.err = "" =>
              /\ TwoDecimalPattern(AmountOf(ret.arg))
              /\ ExactMinorUnits(AmountOf(ret.arg)) # <<>>
        /\ AmountOf(ret.arg) \in {"", "1000", "1.0", "-1.00", "0.00"} => ret.err # ""

C11_Witness ==
    /\ ret.op = "SignAndPrepare"
    /\ ret.arg.HashType = "card_payment"
    /\ ret.arg.OrderAmount = "1.0"
    /\ ret.err = "card_payment: order_amount must match the pattern"

\* the kinds whose validation requires req_token and recurring_init
FlagTypes == {"verification", "card_payment"}

\* the last call was a successful SignAndPrepare under a kind of FlagTypes
SignedWithFlags == ret.op = "SignAndPrepare" /\ ret.err = "" /\ ret.arg.HashType \in FlagTypes

\* the signed request has flag as the caller set it, or as fill when the
\* caller left it unset, and ToMap has it under key
FlagFilled(flag, key, fill) ==
    /\ r[flag] = IF ret.arg[flag] = Nil THEN Ref(fill) ELSE ret.arg[flag]
    /\ key \in DOMAIN ToMap(r)
    /\ ToMap(r)[key] = Deref(r[flag])

\* C12 as stated: under verification and card_payment a successful
\* SignAndPrepare sets an unset req_token or recurring_init to "N", keeps a
\* set one, and both are in ToMap.
C12_FlagsDefaultToN ==
    SignedWithFlags =>
        /\ FlagFilled("ReqToken", "req_token", "N")
        /\ FlagFilled("RecurringInit", "recurring_init", "N")

\* C12 amended: under card_payment a successful SignAndPrepare sets an
\* unset req_token or recurring_init to "N", under verification to "Y";
\* it keeps a set one, and both are in ToMap.
C12_FlagDefaults ==
    SignedWithFlags =>
        LET fill == IF ret.arg.HashType = "verification" THEN "Y" ELSE "N"
        IN  /\ FlagFilled("ReqToken", "req_token", fill)
            /\ FlagFilled("RecurringInit", "recurring_init", fill)

C12_Witness ==
    /\ SignedWithFlags
    /\ ret.arg.HashType = "card_payment"
    /\ ret.arg.ReqToken = Nil
    /\ ret.arg.RecurringInit = Ref("N")
    /\ r.ReqToken = Ref("N")

\* C13: the validation of a SignAndPrepare call, passing or failing, leaves
\* every field of the request as it was, Hash (written by signing) aside,
\* except that under verification and card_payment it may fill an unset
\* req_token and an unset recurring_init.
C13_ValidationFrame ==
    ret.op = "SignAndPrepare" =>
        \A f \in DOMAIN r \ {"Hash"} :
            r[f] # ret.arg[f] =>
                /\ f \in {"ReqToken", "RecurringInit"}
                /\ ret.arg[f] = Nil
                /\ ret.arg.HashType \in FlagTypes

C13_Witness ==
    /\ ret.op = "SignAndPrepare"
    /\ ret.arg.HashType = "card_payment"
    /\ ret.err = "card_payment: order_amount must match the pattern"
    /\ ret.arg.ReqToken = Nil
    /\ r.ReqToken = Ref("N")
    /\ r.OrderAmount = "-1.00"

\* s is empty or holds blanks only
IsBlank(s) == TrimSpace(s) = ""

\* the digest of the inbound callback recipe for form f with the given email
\* and card part: upper(R(email) + secret + order + R(card part) + R(status))
CallbackDigest(f, secret, email, cardPart) ==
    MD5Hex(ToUpper(reverseString(email) \o TrimSpace(secret) \o TrimSpace(f.Order)
                   \o reverseString(cardPart) \o reverseString(TrimSpace(f.Status))))

\* the emails a callback digest of the last call may be made with
CallbackEmails == {Deref(form).Email, TrimSpace(args.payerEmailOverride)}

\* the first six and last four of the digits of a card value of ten digits or more
DigitsFirst6Last4(card) == First6Last4(digitsOnly(card))

\* the last call was ExpectedSign on a form with secret, order and status non-blank
ExpectedSignOnCard ==
    /\ res.op = "ExpectedSign"
    /\ form # Nil
    /\ ~IsBlank(args.secret)
    /\ ~IsBlank(Deref(form).Order)
    /\ ~IsBlank(Deref(form).Status)

\* C14: ExpectedSign makes the card part of the digest from the digits of
\* the callback card only: it fails when the card has fewer than ten
\* digits, and otherwise the digest holds the first six and last four digits.
C14_CardPartFromDigits ==
    (ExpectedSignOnCard /\ ~IsBlank(Deref(form).Card)) =>
        IF Len(digitsOnly(Deref(form).Card)) < 10
        THEN res.err # "" /\ res.val = ""
        ELSE /\ res.err = ""
             /\ \E email \in CallbackEmails :
                   res.val = CallbackDigest(Deref(form), args.secret, email,
                                            DigitsFirst6Last4(Deref(form).Card))

\* C16: ExpectedSign returns an error and no digest when the form is nil or
\* the secret, the order, the status or the card is blank; on a card with
\* ten digits or more it otherwise returns the digest of the callback
\* recipe, secret and order not reversed.
C16_ExpectedSign ==
    res.op = "ExpectedSign" =>
        IF \/ form = Nil
           \/ IsBlank(args.secret)
           \/ IsBlank(Deref(form).Order)
           \/ IsBlank(Deref(form).Status)
           \/ IsBlank(Deref(form).Card)
        THEN res.err # "" /\ res.val = ""
        ELSE Len(digitsOnly(Deref(form).Card)) >= 10 =>
                /\ res.err = ""
                /\ res.val \in {CallbackDigest(Deref(form), args.secret, email,
                                               DigitsFirst6Last4(Deref(form).Card)) :
                                   email \in CallbackEmails}

\* C17: the email in the digest ExpectedSign returns is the callback's
\* email when that is non-blank, and the override only when it is blank.
C17_CallbackEmailFirst ==
    (res.op = "ExpectedSign" /\ res.err = "") =>
        res.val = CallbackDigest(Deref(form), args.secret,
                                 IF ~IsBlank(Deref(form).Email) THEN Deref(form).Email
                                 ELSE TrimSpace(args.payerEmailOverride),
                                 webhookCardSignSource(Deref(form).Card).val)

\* C18: VerifySign returns an error and false when the form is nil, the
\* sign is blank or ExpectedSign fails, and otherwise no error and whether
\* the sign equals the expected digest, letter case ignored.
C18_VerifySign ==
    res.op = "VerifySign" =>
        \E e \in {ExpectedSign(form, args.secret, args.payerEmailOverride)} :
            IF form = Nil \/ IsBlank(Deref(form).Sign) \/ e.err # ""
            THEN res.err # "" /\ res.val = FALSE
            ELSE res.err = "" /\ res.val = (ToUpper(Deref(form).Sign) = ToUpper(e.val))

\* C18 amended: VerifySign returns an error and false when the form is nil,
\* the sign is empty or ExpectedSign fails, and otherwise (a sign of blanks
\* included) no error and whether the sign equals the expected digest,
\* letter case ignored.
C18_VerifySignEmpty ==
    res.op = "VerifySign" =>
        \E e \in {ExpectedSign(form, args.secret, args.payerEmailOverride)} :
            IF form = Nil \/ Deref(form).Sign = "" \/ e.err # ""
            THEN res.err # "" /\ res.val = FALSE
            ELSE res.err = "" /\ res.val = (ToUpper(Deref(form).Sign) = ToUpper(e.val))

C18_Witness ==
    /\ res.op = "VerifySign"
    /\ res.err = ""
    /\ res.val = TRUE
    /\ args.secret = "sEc"
    /\ Deref(form).Sign = "MD5:OC.E@PSECO-11111111114ELAS"

\* C19: no field of the record ParseWebhookValues returns starts or ends
\* with whitespace.
C19_ParsedFieldsTrimmed ==
    res.op = "ParseWebhookValues" =>
        \A f \in WebhookFieldNames : Deref(form)[f] = TrimSpace(Deref(form)[f])

\* the kinds whose recipe holds first6+last4 of the card number
PanTypes == {"verification", "card_payment", "credit2card"}

\* C15: deriving first6+last4 succeeds for a card value with exactly ten
\* digits and fails for one with nine digits or fewer, non-digit characters
\* not counted: in signing under verification, card_payment and
\* credit2card, and in cardHashPartFromPAN.
C15_TenDigitBoundary ==
    /\ (ret.op = "SignAndPrepare" /\ ret.arg.HashType \in PanTypes
            /\ ret.arg.CardNumber # Nil /\ ~NoSecret(ret.arg)
            /\ (ret.arg.HashType = "credit2card" \/ ret.arg.PayerEmail # Nil)) =>
          /\ Len(digitsOnly(Deref(ret.arg.CardNumber))) = 10
                => generateByHashType(ret.arg).err = ""
          /\ Len(digitsOnly(Deref(ret.arg.CardNumber))) <= 9
                => /\ generateByHashType(ret.arg).err # ""
                   /\ ret.err # ""
                   /\ r.Hash = ret.arg.Hash
    /\ res.op = "cardHashPartFromPAN" =>
          /\ Len(digitsOnly(args.pan)) = 10 => res.err = "" /\ res.val = digitsOnly(args.pan)
          /\ Len(digitsOnly(args.pan)) <= 9 => res.err # "" /\ res.val = ""

(***************************************************************************)
(* Reading the data field back: base64 and JSON decoding, written from     *)
(* the formats and not from the encoders above.                            *)
(***************************************************************************)
CharOf(n) ==
    IF n < 97 THEN At(AsciiLow, n - 31) ELSE At(AsciiHigh, n - 96)

Base64Index(c) == (CHOOSE i \in 1..Len(Base64Alphabet) : At(Base64Alphabet, i) = c) - 1

\* the bytes of four base64 characters
DecodeQuantum(q) ==
    IF SubSeq(q, 3, 4) = "=="
    THEN CharOf((Base64Index(At(q, 1)) * 64 + Base64Index(At(q, 2))) \div 16)
    ELSE IF At(q, 4) = "="
    THEN Let1(Base64Index(At(q, 1)) * 4096 + Base64Index(At(q, 2)) * 64
                  + Base64Index(At(q, 3)), LAMBDA n :
           CharOf(n \div 1024) \o CharOf((n \div 4) % 256))
    ELSE Let1(Base64Index(At(q, 1)) * 262144 + Base64Index(At(q, 2)) * 4096
                  + Base64Index(At(q, 3)) * 64 + Base64Index(At(q, 4)), LAMBDA n :
           CharOf(n \div 65536) \o CharOf((n \div 256) % 256) \o CharOf(n % 256))

RECURSIVE Base64Decode(_)
Base64Decode(s) ==
    IF s = "" THEN ""
    ELSE IF Len(s) <= 4 THEN DecodeQuantum(s)
    ELSE Let1(4 * ((Len(s) + 7) \div 8), LAMBDA h :
           Base64Decode(SubSeq(s, 1, h)) \o Base64Decode(SubSeq(s, h + 1, Len(s))))

\* the number of backslashes that end SubSeq(s, 1, i)
RECURSIVE BackslashesBefore(_, _)
BackslashesBefore(s, i) ==
    IF i >= 1 /\ At(s, i) = "\\" THEN 1 + BackslashesBefore(s, i - 1) ELSE 0

\* s starts with a quote: the position of the quote that closes it
ClosingQuote(s) ==
    CHOOSE i \in 2..Len(s) :
        /\ At(s, i) = "\"" /\ BackslashesBefore(s, i - 1) % 2 = 0
        /\ \A j \in 2..(i - 1) : ~(At(s, j) = "\"" /\ BackslashesBefore(s, j - 1) % 2 = 0)

\* the text of the inside of a JSON string
RECURSIVE JSONUnescape(_)
JSONUnescape(s) ==
    IF s = "" THEN ""
    ELSE IF Head(s) # "\\" THEN Head(s) \o JSONUnescape(Tail(s))
    ELSE IF At(s, 2) = "u"
    THEN (CASE SubSeq(s, 3, 6) = "003c" -> "<"
            [] SubSeq(s, 3, 6) = "003e" -> ">"
            [] SubSeq(s, 3, 6) = "0026" -> "&")
         \o JSONUnescape(SubSeq(s, 7, Len(s)))
    ELSE At(s, 2) \o JSONUnescape(SubSeq(s, 3, Len(s)))

\* the members "key":"value",... of a JSON object of strings, as a function from key to value
RECURSIVE JSONMembers(_)
JSONMembers(s) ==
    IF s = "" THEN <<>>
    ELSE Let1(ClosingQuote(s), LAMBDA k :
           Let1(SubSeq(s, k + 2, Len(s)), LAMBDA afterColon :
             Let1(ClosingQuote(afterColon), LAMBDA v :
               Let1(JSONMembers(SubSeq(afterColon, v + 2, Len(afterColon))), LAMBDA rest :
                 [key \in DOMAIN rest \cup {JSONUnescape(SubSeq(s, 2, k - 1))} |->
                     IF key \in DOMAIN rest THEN rest[key]
                     ELSE JSONUnescape(SubSeq(afterColon, 2, v - 1))]))))

\* the object that the data field of a form carries
DecodedData(fields) ==
    Let1(Base64Decode(fields["data"]), LAMBDA text : JSONMembers(SubSeq(text, 2, Len(text) - 1)))

\* the last call was one of the two BuildClientServerVerificationForm
FormBuilt == res.op \in {"platon.BuildClientServerVerificationForm",
                         "go_platon.BuildClientServerVerificationForm"}

NoParams ==
    [ClientKey |-> "", Secret |-> "", RedirectURL |-> "", Description |-> "", Currency |-> "",
     OrderID |-> Nil, Metadata |-> <<>>]

\* merchant key, secret, redirect URL, description, currency and order id of the last call
FormParams ==
    IF res.op = "platon.BuildClientServerVerificationForm" THEN args.params
    ELSE IF args.request = Nil \/ Deref(args.request).Merchant = Nil THEN NoParams
    ELSE LET m == Deref(Deref(args.request).Merchant)
             d == Deref(args.request).PaymentData
         IN  [ClientKey   |-> m.MerchantKey,
              Secret      |-> m.SecretKey,
              RedirectURL |-> IF IsBlank(m.SuccessRedirect) THEN m.FailRedirect
                              ELSE m.SuccessRedirect,
              Description |-> IF d = Nil THEN "" ELSE Deref(d).Description,
              Currency    |-> IF d = Nil THEN "" ELSE Deref(d).Currency,
              OrderID     |-> IF d = Nil THEN Nil ELSE Deref(d).PaymentID,
              Metadata    |-> <<>>]

FormEndpoint ==
    IF res.op = "platon.BuildClientServerVerificationForm" THEN args.endpoint
    ELSE ApiPaymentAuthURL

\* one of the five required parameters is blank after trimming
RequiredParamBlank ==
    \E k \in {"ClientKey", "Secret", "RedirectURL", "Description", "Currency"} :
        IsBlank(FormParams[k])

\* the result is a POST form with the fixed fields, whose data decodes to the parameters
\* and which holds the secret nowhere
FormIsRight ==
    /\ res.err = "" /\ res.val # Nil
    /\ Deref(res.val).Method = "POST"
    /\ \E fields \in {Deref(res.val).Fields} :
          /\ {"payment", "formid", "req_token", "key", "url", "data", "sign"} \subseteq DOMAIN fields
          /\ fields["payment"] = "CC" /\ fields["formid"] = "verify" /\ fields["req_token"] = "Y"
          /\ fields["key"] = TrimSpace(FormParams.ClientKey)
          /\ fields["url"] = TrimSpace(FormParams.RedirectURL)
          /\ \A k \in DOMAIN fields :
                fields[k] # FormParams.Secret /\ fields[k] # TrimSpace(FormParams.Secret)
          /\ \E data \in {DecodedData(fields)} :
                /\ {"amount", "recurring", "description", "currency"} \subseteq DOMAIN data
                /\ data["amount"] = "0.40" /\ data["recurring"] = "Y"
                /\ data["description"] = TrimSpace(FormParams.Description)
                /\ data["currency"] = TrimSpace(FormParams.Currency)
                /\ IF FormParams.OrderID = Nil \/ IsBlank(Deref(FormParams.OrderID))
                   THEN "order" \notin DOMAIN data
                   ELSE "order" \in DOMAIN data
                        /\ data["order"] = TrimSpace(Deref(FormParams.OrderID))
                /\ \A k \in DOMAIN data : data[k] # TrimSpace(FormParams.Secret)

\* C20: BuildClientServerVerificationForm returns an error when any of merchant key,
\* secret, redirect URL, description or currency is blank after trimming; otherwise a
\* POST form with payment "CC", formid "verify", req_token "Y", key, url, data and sign,
\* whose data decodes to amount "0.40", recurring "Y", the description, the currency and
\* the order id only when it is not blank, and no field of which is the secret.
C20_VerificationForm ==
    FormBuilt =>
        IF RequiredParamBlank THEN res.err # "" /\ res.val = Nil ELSE FormIsRight

\* C20, as the code has it: a blank endpoint is an error as well.
C20_VerificationFormEndpoint ==
    FormBuilt =>
        IF RequiredParamBlank \/ IsBlank(FormEndpoint) THEN res.err # "" /\ res.val = Nil
        ELSE FormIsRight

\* a form built from padded parameters, a blank order id and metadata
C20_Witness ==
    /\ res.op = "platon.BuildClientServerVerificationForm" /\ res.err = ""
    /\ args.params.OrderID = Ref(" ") /\ args.params.Currency = " UAH"
    /\ args.params.Metadata # <<>>
    /\ Deref(res.val).Fields["formid"] = "verify"


\* the metadata value of the last call under key, "" when there is none
MetadataOf(key) ==
    IF key \in DOMAIN FormParams.Metadata THEN FormParams.Metadata[key] ELSE ""

\* C21: in a built form, for each i in 1..10 the top-level field ext_i is present exactly
\* when the metadata value ext_i is not blank after trimming, and then it is the trimmed
\* value, which the data payload holds as ext_i too; a blank value is in neither.
C21_ExtensionFields ==
    (FormBuilt /\ res.err = "") =>
        \E fields \in {Deref(res.val).Fields} : \E data \in {DecodedData(fields)} :
            \A i \in 1..Len(ExtKeys) :
                IF IsBlank(MetadataOf(ExtKeys[i]))
                THEN ExtKeys[i] \notin DOMAIN fields /\ ExtKeys[i] \notin DOMAIN data
                ELSE /\ ExtKeys[i] \in DOMAIN fields /\ ExtKeys[i] \in DOMAIN data
                     /\ fields[ExtKeys[i]] = TrimSpace(MetadataOf(ExtKeys[i]))
                     /\ data[ExtKeys[i]] = TrimSpace(MetadataOf(ExtKeys[i]))

\* a form built from metadata with a plain, a padded and a blank value
C21_Witness ==
    /\ res.op = "platon.BuildClientServerVerificationForm" /\ res.err = ""
    /\ args.params.Metadata # <<>>
    /\ args.params.Metadata["ext10"] = " v1 " /\ args.params.Metadata["ext2"] = " "
    /\ Deref(res.val).Fields["ext10"] = "v1"
    /\ "ext2" \notin DOMAIN Deref(res.val).Fields

HasSuffix(s, suffix) ==
    Len(s) >= Len(suffix) /\ SubSeq(s, Len(s) - Len(suffix) + 1, Len(s)) = suffix

\* s holds no space outside its strings, from the i-th character on
RECURSIVE CompactFrom(_, _, _)
CompactFrom(s, i, inString) ==
    IF i > Len(s) THEN TRUE
    ELSE IF inString /\ At(s, i) = "\\" THEN CompactFrom(s, i + 2, inString)
    ELSE IF At(s, i) = "\"" THEN CompactFrom(s, i + 1, ~inString)
    ELSE (inString \/ At(s, i) # " ") /\ CompactFrom(s, i + 1, inString)

\* the result of the response is word, letter case and spaces around it aside
ResultIs(q, word) == q.Result # Nil /\ EqualFold(TrimSpace(Deref(q.Result)), word)

\* the member of the body the response was decoded from, JSONNull when it has none
BodyMember(key) ==
    Let1(jsonUnmarshal(args.text).v.m, LAMBDA m : IF key \in DOMAIN m THEN m[key] ELSE JSONNull)

\* C22: GetError returns an error exactly when the response has a non-blank error
\* message, or a non-blank decline reason, or a result that is ERROR or DECLINED up to
\* letter case and spaces; the message comes before the decline reason and that before
\* the bare result; a null or absent error_message with result ACCEPTED gives no error,
\* and an error_message that arrived as a JSON object is reported as its compact JSON text.
C22_GetError ==
    (res.op = "GetError" /\ res.val # Nil) =>
        \E q \in {Deref(res.val)} :
            /\ (res.err # "") <=>
                  \/ ~IsBlank(q.ErrorMessage) \/ ~IsBlank(q.DeclineReason)
                  \/ ResultIs(q, "ERROR") \/ ResultIs(q, "DECLINED")
            /\ ~IsBlank(q.ErrorMessage) =>
                  /\ HasSuffix(res.err, TrimSpace(q.ErrorMessage))
                  /\ HasPrefix(res.err, "platon api error")
            /\ (IsBlank(q.ErrorMessage) /\ ~IsBlank(q.DeclineReason)) =>
                  /\ HasSuffix(res.err, TrimSpace(q.DeclineReason))
                  /\ HasPrefix(res.err, "platon api declined")
            /\ (IsBlank(q.ErrorMessage) /\ IsBlank(q.DeclineReason) /\ res.err # "") =>
                  res.err \in {"unknown platon api error", "unknown platon api decline"}
            /\ args.text # "" =>
                  /\ (/\ BodyMember("error_message").t = "null"
                      /\ BodyMember("decline_reason").t = "null"
                      /\ BodyMember("result") = [t |-> "string", s |-> "ACCEPTED", m |-> <<>>])
                     => res.err = ""
                  /\ BodyMember("error_message").t = "object" =>
                        /\ CompactFrom(q.ErrorMessage, 1, FALSE)
                        /\ jsonUnmarshal(q.ErrorMessage) =
                               [ok |-> TRUE, v |-> BodyMember("error_message")]
                        /\ HasSuffix(res.err, q.ErrorMessage)

\* GetError on a response whose error_message arrived as an object written with spaces
C22_Witness ==
    /\ res.op = "GetError" /\ res.val # Nil
    /\ res.err = "platon api error: {\"a\":\"x y\",\"b\":[1,true]}"
    /\ args.text = "{\"result\":\"ERROR\",\"error_message\": { \"b\" : [1, true] , \"a\" : \"x y\" } }"
    /\ BodyMember("error_message").t = "object"

\* the POSTs that the k-th call of the behaviour made
PostsOf(k) == {i \in DOMAIN net : net[i].call = k}

\* no call has made two POSTs, and a call in progress has a signed and validated request
OnePostPerCall ==
    /\ \A k \in 1..MaxApiCalls : Cardinality(PostsOf(k)) <= 1
    /\ call # Nil =>
          /\ Deref(call).request # Nil
          /\ SignAndPrepare(Deref(Deref(call).request), <<>>).ret
          /\ PostsOf(MaxApiCalls - budget) = {}
    /\ (res.op = "Api" /\ args.outcome = NoOutcome) => PostsOf(MaxApiCalls - budget) = {}

\* a step that posts is a step of a call whose request was signed; it posts the map of
\* the signed request once and ends the call
PostStep ==
    net' # net =>
        /\ call # Nil /\ call' = Nil
        /\ net' = Append(net, [url |-> Deref(call).url,
                               form |-> ToMap(SignAndPrepare(Deref(Deref(call).request), <<>>).r),
                               call |-> MaxApiCalls - budget])
        /\ res'.op = "Api"

\* C23: a call of Api makes at most one POST and does not retry: none for a nil request
\* or when SignAndPrepare fails, the POST comes after signing and validation succeeded,
\* and after a transport error, an empty or oversized body, a status outside 2xx or a
\* decline the call ends with no second attempt.
C23_AtMostOnePost == []OnePostPerCall /\ [][PostStep]_vars

\* a second call that was answered 502, after a first call that was declined
C23_Witness ==
    /\ res.op = "Api" /\ res.err # "" /\ call = Nil /\ budget = 0
    /\ args.outcome.status = 502 /\ args.outcome.text = "gateway down"
    /\ Len(net) = MaxApiCalls /\ net[1].call = 1 /\ net[MaxApiCalls].call = MaxApiCalls

\* a call of Api has returned
ApiReturned == res.op = "Api" /\ call = Nil

\* the number of bytes of the body received
BodySize == Len(args.outcome.text) + args.outcome.pad

\* the call got no body it could read: nil request, signing failure, transport failure
NoBodyRead ==
    \/ args.request = Nil
    \/ ~SignAndPrepare(Deref(args.request), <<>>).ret
    \/ ~args.client
    \/ args.outcome.kind # "response"

StatusIs2xx == args.outcome.status >= 200 /\ args.outcome.status <= 299

FourMiB == 4 * 1024 * 1024

\* the body is not the JSON text of a response
Unparsable == UnmarshalJSONResponse(args.outcome.text).err # ""

\* the response carries a gateway error or a decline
CarriesError(q) ==
    \/ ~IsBlank(q.ErrorMessage) \/ ~IsBlank(q.DeclineReason)
    \/ ResultIs(q, "ERROR") \/ ResultIs(q, "DECLINED")

\* C29: Api returns a response together with an error only when a 2xx answer was read and
\* parsed and carries a gateway error or decline; for a nil request, a signing failure, a
\* transport failure, a nil or empty body, a body over 4 MiB, a status outside 2xx or an
\* unparsable body it returns no response and an error; otherwise the response and no
\* error.  The body is checked for empty, too large, status and parse in this order.
C29_ApiResult ==
    ApiReturned =>
        /\ IF NoBodyRead \/ BodySize = 0 \/ BodySize > FourMiB \/ ~StatusIs2xx \/ Unparsable
           THEN res.val = Nil /\ res.err # ""
           ELSE res.val # Nil /\ (res.err # "" <=> CarriesError(Deref(res.val)))
        /\ ~NoBodyRead =>
              /\ BodySize = 0 => HasPrefix(res.err, "empty response")
              /\ BodySize > FourMiB => HasPrefix(res.err, "response exceeds")
              /\ (BodySize > 0 /\ BodySize <= FourMiB /\ ~StatusIs2xx)
                    => HasPrefix(res.err, "status=")
              /\ (BodySize > 0 /\ BodySize <= FourMiB /\ StatusIs2xx /\ Unparsable)
                    => HasPrefix(res.err, "error unmarshalling JSON response")

\* an empty body that came with status 502 is reported as empty
C29_Witness ==
    /\ ApiReturned /\ ~NoBodyRead
    /\ BodySize = 0 /\ args.outcome.status = 502
    /\ res.val = Nil /\ res.err = "empty response"

(***************************************************************************)
(* The client, go_platon.client.  A go_platon.Request is a pointer to     *)
(* [Merchant, PaymentData, PaymentMethod, PersonalData]: Merchant a        *)
(* pointer to [MerchantKey, SecretKey, SuccessRedirect, FailRedirect,      *)
(* ClientIP, TermsURL], PaymentData a pointer to [PaymentID, Amount,       *)
(* Currency, Description, SplitRules, Metadata, SubmerchantID,             *)
(* PlatonTransID, PlatonPaymentID], PaymentMethod a pointer to [Card,      *)
(* AppleContainer, GoogleToken], Card a pointer to [Token, Pan], and       *)
(* PersonalData a pointer to [FirstName, LastName, Email, Phone].          *)
(***************************************************************************)
\* GetCardToken, were the card number taken where the card has no token
GetCardTokenOrPan(request) ==
    IF request.PaymentMethod = Nil \/ Deref(request.PaymentMethod).Card = Nil THEN Nil
    ELSE IF Empty(Deref(Deref(request.PaymentMethod).Card).Token)
    THEN Deref(Deref(request.PaymentMethod).Card).Pan
    ELSE Deref(Deref(request.PaymentMethod).Card).Token

GetCardToken(request) ==
    IF request.PaymentMethod = Nil \/ Deref(request.PaymentMethod).Card = Nil THEN Nil
    ELSE Deref(Deref(request.PaymentMethod).Card).Token

GetPayerEmail(request) ==
    IF request.PersonalData = Nil THEN Nil ELSE Deref(request.PersonalData).Email

GetPayerPhone(request) ==
    IF request.PersonalData = Nil THEN Nil ELSE Deref(request.PersonalData).Phone

GetClientIP(request) ==
    IF request.Merchant = Nil THEN Nil ELSE Deref(request.Merchant).ClientIP

GetTermsURL(request) ==
    IF request.Merchant = Nil THEN Nil ELSE Deref(request.Merchant).TermsURL

GetSubmerchantID(request) ==
    IF request.PaymentData = Nil \/ Deref(request.PaymentData).SubmerchantID = Nil THEN Nil
    ELSE IF TrimSpace(Deref(Deref(request.PaymentData).SubmerchantID)) = "" THEN Nil
    ELSE Ref(TrimSpace(Deref(Deref(request.PaymentData).SubmerchantID)))

\* PlatonPaymentID is a pointer to a number that is not negative
GetPlatonTransID(request) ==
    IF request.PaymentData = Nil THEN Nil
    ELSE IF ~Empty(Deref(request.PaymentData).PlatonTransID)
    THEN Deref(request.PaymentData).PlatonTransID
    ELSE IF Deref(request.PaymentData).PlatonPaymentID # Nil
    THEN Ref(Itoa(Deref(Deref(request.PaymentData).PlatonPaymentID)))
    ELSE Nil

IsApplePay(request) ==
    request.PaymentMethod # Nil /\ ~Empty(Deref(request.PaymentMethod).AppleContainer)

\* base64.StdEncoding.DecodeString accepts s
IsBase64(s) ==
    /\ Len(s) % 4 = 0
    /\ \A i \in 1..Len(s) :
          \/ \E k \in 1..Len(Base64Alphabet) : At(Base64Alphabet, k) = At(s, i)
          \/ /\ At(s, i) = "="
             /\ i >= Len(s) - 1
             /\ i = Len(s) - 1 => At(s, Len(s)) = "="

\* Request.GetAppleContainer: [val, err]
GetAppleContainer(request) ==
    IF request.PaymentMethod = Nil \/ Deref(request.PaymentMethod).AppleContainer = Nil
    THEN [val |-> Nil, err |-> "Apple Container is not set"]
    ELSE IF Deref(Deref(request.PaymentMethod).AppleContainer) = ""
    THEN [val |-> Nil, err |-> "Apple Container is empty"]
    ELSE IF ~IsBase64(Deref(Deref(request.PaymentMethod).AppleContainer))
    THEN [val |-> Nil, err |-> "cannot decode Apple Container"]
    ELSE Let1(jsonUnmarshal(Base64Decode(Deref(Deref(request.PaymentMethod).AppleContainer))),
              LAMBDA token :
           IF ~token.ok \/ token.v.t \notin {"object", "null"}
           THEN [val |-> Nil, err |-> "json unmarshal error"]
           ELSE [val |-> Ref(Base64Encode(
                            IF token.v.t = "object" /\ "token" \in DOMAIN token.v.m
                            THEN marshalValue(token.v.m["token"]) ELSE "null")),
                 err |-> ""])

\* the member of a JSON object that a struct field is decoded from: [ok, v]
structField(v, name) ==
    IF v.t = "null" THEN [ok |-> TRUE, v |-> JSONNull]
    ELSE IF v.t # "object" THEN [ok |-> FALSE, v |-> JSONNull]
    ELSE IF name \in DOMAIN v.m THEN [ok |-> TRUE, v |-> v.m[name]]
    ELSE [ok |-> TRUE, v |-> JSONNull]

\* strconv.Quote of printable ASCII text, without the quotes around it
RECURSIVE strconvQuote(_)
strconvQuote(s) ==
    IF s = "" THEN ""
    ELSE (IF Head(s) \in {"\"", "\\"} THEN "\\" \o Head(s) ELSE Head(s)) \o strconvQuote(Tail(s))

\* strconv.Unquote of what strconvQuote wrote
RECURSIVE strconvUnquote(_)
strconvUnquote(s) ==
    IF s = "" THEN ""
    ELSE IF Head(s) = "\\" THEN At(s, 2) \o strconvUnquote(SubSeq(s, 3, Len(s)))
    ELSE Head(s) \o strconvUnquote(Tail(s))

\* Request.GetGoogleToken: [val, err]
GetGoogleToken(request) ==
    IF request.PaymentMethod = Nil \/ Deref(request.PaymentMethod).GoogleToken = Nil
    THEN [val |-> Nil, err |-> "Google Token is not set"]
    ELSE IF Deref(Deref(request.PaymentMethod).GoogleToken) = ""
    THEN [val |-> Nil, err |-> "Google Token is empty"]
    ELSE IF ~IsBase64(Deref(Deref(request.PaymentMethod).GoogleToken))
    THEN [val |-> Nil, err |-> "cannot decode Google Token"]
    ELSE Let1(jsonUnmarshal(Base64Decode(Deref(Deref(request.PaymentMethod).GoogleToken))),
              LAMBDA data :
           IF ~data.ok THEN [val |-> Nil, err |-> "json unmarshal error"]
           ELSE Let1(structField(data.v, "paymentMethodData"), LAMBDA method :
                Let1(structField(method.v, "tokenizationData"), LAMBDA tokenization :
                Let1(structField(tokenization.v, "token"), LAMBDA token :
                  IF ~method.ok \/ ~tokenization.ok \/ ~token.ok
                     \/ token.v.t \notin {"string", "null"}
                  THEN [val |-> Nil, err |-> "json unmarshal error"]
                  ELSE [val |-> Ref(Base64Encode(strconvUnquote(strconvQuote(
                                    IF token.v.t = "string" THEN token.v.s ELSE "")))),
                        err |-> ""]))))

ApiConfigurationURL == "https://secure.platononline.com/configuration/"

ApiPostURL == "https://secure.platononline.com/post/"

ApiPostUnqURL == "https://secure.platononline.com/post-unq/"

ApiP2PUnqURL == "https://secure.platononline.com/p2p-unq/"

\* what a client method has when it reaches its dry-run check: [err, url, payload]
Rejected(msg) == [err |-> msg, url |-> "", payload |-> Nil]

\* client.buildIAPaymentRequest(request, hold), request a pointer
buildIAPaymentRequest(request, hold) ==
    IF request = Nil THEN Rejected("request is nil")
    ELSE LET q == Deref(request)
             base(action) ==
                 WithPayerPhone(WithPayerEmail(WithTermsURL(WithPayerIP(WithDescription(
                     ForCurrency(WithOrderAmountMinorUnits(WithOrderID(WithClientKey(
                         WithAuth(NewRequest(action), GetAuth(q)), GetMerchantKey(q)),
                         GetPaymentID(q)), Deref(q.PaymentData).Amount), GetCurrency(q)),
                     GetDescription(q)), GetClientIP(q)), GetTermsURL(q)),
                     GetPayerEmail(q)), GetPayerPhone(q))
             named(action) ==
                 IF q.PersonalData = Nil THEN base(action)
                 ELSE WithPayerLastName(
                          WithPayerFirstName(base(action), Deref(q.PersonalData).FirstName),
                          Deref(q.PersonalData).LastName)
             common(action) == IF hold THEN WithHoldAuth(named(action)) ELSE named(action)
         IN  IF q.PaymentData = Nil THEN Rejected("payment: PaymentData is nil")
             ELSE IF GetMerchantKey(q) = ""
             THEN Rejected("payment: merchant client_key is required")
             ELSE IF Empty(GetPaymentID(q))
             THEN Rejected("payment: order_id (PaymentData.PaymentID) is required")
             ELSE IF GetCurrency(q) = "" THEN Rejected("payment: order_currency is required")
             ELSE IF GetDescription(q) = ""
             THEN Rejected("payment: order_description is required")
             ELSE Let1(GetSplitRules(q), LAMBDA splitRules :
                    IF splitRules.err # ""
                    THEN Rejected("payment: invalid split rules: " \o splitRules.err)
                    ELSE IF IsApplePay(q)
                    THEN Let1(GetAppleContainer(q), LAMBDA container :
                           IF container.err # ""
                           THEN Rejected("payment: cannot get Apple Pay container: "
                                         \o container.err)
                           ELSE [err |-> "", url |-> ApiPostURL,
                                 payload |-> Ref(SignForAction(WithSplitRules(
                                     WithPaymentToken(common("APPLEPAY"), container.val),
                                     splitRules.rules), "apple_pay"))])
                    ELSE IF q.PaymentMethod # Nil /\ Deref(q.PaymentMethod).GoogleToken # Nil
                    THEN Let1(GetGoogleToken(q), LAMBDA token :
                           IF token.err # ""
                           THEN Rejected("payment: cannot get Google Pay token: " \o token.err)
                           ELSE [err |-> "", url |-> ApiPostURL,
                                 payload |-> Ref(SignForAction(WithSplitRules(
                                     WithPaymentToken(common("GOOGLEPAY"), token.val),
                                     splitRules.rules), "google_pay"))])
                    ELSE IF ~Empty(GetCardToken(q))
                    THEN [err |-> "", url |-> ApiPostUnqURL,
                          payload |-> Ref(SignForAction(WithSplitRules(
                              WithCardToken(common("SALE"), GetCardToken(q)),
                              splitRules.rules), "card_token_payment"))]
                    ELSE Rejected("payment: unsupported payment method (expected CARD_TOKEN, Apple Pay, or Google Pay data)"))

\* Capture and Refund up to the dry-run check; they differ in the action, the hash type and
\* the immediately flag
captureOrRefund(request, name, action, hashType) ==
    IF request = Nil THEN Rejected(name \o ": request is nil")
    ELSE LET q == Deref(request)
             immediately ==
                 /\ name = "refund"
                 /\ "immediately" \in DOMAIN GetMetadata(q)
                 /\ ToUpper(TrimSpace(GetMetadata(q)["immediately"]))
                       \in {"Y", "YES", "TRUE", "1"}
         IN  IF Empty(GetPlatonTransID(q))
             THEN Rejected(name \o ": trans_id is required (set PaymentData.PlatonTransID or PaymentData.PlatonPaymentID)")
             ELSE IF GetMerchantKey(q) = ""
             THEN Rejected(name \o ": merchant client_key is required")
             ELSE IF q.PaymentData = Nil THEN Rejected(name \o ": PaymentData is nil")
             ELSE IF ~IsPos64(Deref(q.PaymentData).Amount)
             THEN Rejected(name \o ": PaymentData.Amount (minor units) must be > 0")
             ELSE Let1(GetSplitRules(q), LAMBDA splitRules :
                    IF splitRules.err # ""
                    THEN Rejected(name \o ": invalid split rules: " \o splitRules.err)
                    ELSE Let1(WithHashEmail(WithSplitRules(WithAmountMinorUnits(WithTransID(
                                  WithClientKey(WithAuth(NewRequest(action), GetAuth(q)),
                                                GetMerchantKey(q)),
                                  GetPlatonTransID(q)), Deref(q.PaymentData).Amount),
                                  splitRules.rules), GetPayerEmail(q)), LAMBDA api :
                           [err |-> "", url |-> ApiPostUnqURL,
                            payload |-> Ref(SignForAction(
                                IF immediately THEN WithImmediately(api, TRUE) ELSE api,
                                hashType))]))

isA2CStatusRequest(request) ==
    /\ "platon_flow" \in DOMAIN GetMetadata(request)
    /\ EqualFold(TrimSpace(GetMetadata(request)["platon_flow"]), "a2c")

\* client.Status up to the dry-run check
statusRequest(request) ==
    IF request = Nil THEN Rejected("request is nil")
    ELSE IF Blank(GetPaymentID(Deref(request)))
    THEN Rejected("status: order_id is required (set PaymentData.PaymentID)")
    ELSE [err |-> "",
          url |-> IF isA2CStatusRequest(Deref(request)) THEN ApiP2PUnqURL ELSE ApiPostUnqURL,
          payload |-> Ref(SignForAction(WithOrderID(WithClientKey(
              WithAuth(NewRequest("GET_TRANS_STATUS_BY_ORDER"), GetAuth(Deref(request))),
              GetMerchantKey(Deref(request))), GetPaymentID(Deref(request))),
              "get_trans_status_by_order"))]

\* client.Credit up to the dry-run check, for a request that names no payer and carries no
\* payer metadata
creditRequest(request) ==
    IF request = Nil THEN Rejected("credit: request is nil")
    ELSE Let1(Credit([Merchant |-> Deref(request).Merchant,
                      PaymentData |-> Deref(request).PaymentData,
                      CardToken |-> GetCardToken(Deref(request)),
                      Email |-> GetPayerEmail(Deref(request)),
                      Phone |-> GetPayerPhone(Deref(request))]), LAMBDA c :
           IF c.err # "" THEN Rejected(c.err)
           ELSE [err |-> "", url |-> ApiP2PUnqURL, payload |-> c.api])

\* client.SubmerchantAvailableForSplit up to the dry-run check
submerchantRequest(request) ==
    IF request = Nil THEN Rejected("request is nil")
    ELSE IF GetMerchantKey(Deref(request)) = ""
    THEN Rejected("split availability: merchant client_key is required")
    ELSE IF Empty(GetSubmerchantID(Deref(request)))
    THEN Rejected("split availability: submerchant_id is required")
    ELSE [err |-> "", url |-> ApiConfigurationURL,
          payload |-> Ref(SignForAction(WithSubmerchantID(WithClientKey(
              WithAuth(NewRequest("GET_SUBMERCHANT"), GetAuth(Deref(request))),
              GetMerchantKey(Deref(request))), GetSubmerchantID(Deref(request))),
              "get_submerchant"))]

\* client.Verification up to the dry-run check; the payload is the form
verificationRequest(request) ==
    Let1(RequestBuildClientServerVerificationForm(
             IF request = Nil THEN Nil
             ELSE Ref([Merchant |-> Deref(request).Merchant,
                       PaymentData |-> Deref(request).PaymentData])), LAMBDA b :
      IF b.err # "" THEN Rejected(b.err)
      ELSE [err |-> "", url |-> ApiPaymentAuthURL, payload |-> b.form])

ClientOps ==
    {"Payment", "Hold", "Capture", "Refund", "Status", "Credit", "Verification",
     "SubmerchantAvailableForSplit"}

\* the method op up to its dry-run check
ClientBuild(op, request) ==
    CASE op = "Payment" -> buildIAPaymentRequest(request, FALSE)
      [] op = "Hold" -> buildIAPaymentRequest(request, TRUE)
      [] op = "Capture" -> captureOrRefund(request, "capture", "CAPTURE", "capture")
      [] op = "Refund" -> captureOrRefund(request, "refund", "CREDITVOID", "creditvoid")
      [] op = "Status" -> statusRequest(request)
      [] op = "Credit" -> creditRequest(request)
      [] op = "Verification" -> verificationRequest(request)
      [] op = "SubmerchantAvailableForSplit" -> submerchantRequest(request)

\* SubmerchantAvailableForSplit from the return of Api on: [val, err]
submerchantAvailable(g) ==
    IF g.err # "" THEN [val |-> FALSE, err |-> "split availability API call: " \o g.err]
    ELSE Let1(SubmerchantIDStatus(g.resp), LAMBDA status :
           IF ~status.ok
           THEN [val |-> FALSE,
                 err |-> "split availability: response does not contain submerchant_id_status"]
           ELSE CASE ToUpper(status.val) = "ENABLED" -> [val |-> TRUE, err |-> ""]
                  [] ToUpper(status.val) = "DISABLED" -> [val |-> FALSE, err |-> ""]
                  [] OTHER -> [val |-> FALSE,
                               err |-> "split availability: unknown submerchant_id_status \""
                                       \o status.val \o "\""])

\* what the method op returns for what Api returned: [val, err]
ClientReturn(op, g) ==
    CASE op = "Payment" ->
            IF g.err # "" THEN [val |-> Nil, err |-> "payment API call: " \o g.err]
            ELSE [val |-> g.resp, err |-> ""]
      [] op = "Hold" ->
            IF g.err # "" THEN [val |-> Nil, err |-> "hold API call: " \o g.err]
            ELSE [val |-> g.resp, err |-> ""]
      [] op = "SubmerchantAvailableForSplit" -> submerchantAvailable(g)
      [] OTHER -> [val |-> g.resp, err |-> g.err]

(***************************************************************************)
(* The client machine: a caller of the client's methods, with or without  *)
(* the DryRun run option.  A method runs in one step up to the point where *)
(* the gateway acts (ClientPayment .. ClientSubmerchantAvailableForSplit)  *)
(* and, unless it has returned, in a second step from the POST on          *)
(* (ClientSend).  args is [op, request, dryRun, outcome] of the last call, *)
(* res its result, net the POSTs made and dry the calls of the dry-run     *)
(* handler, each [endpoint, payload, call].                                *)
(***************************************************************************)
MaxClientCalls == 1

AppleContainerText == Base64Encode("{\"token\":{\"a\":1},\"v\":2}")

GoogleTokenText ==
    Base64Encode("{\"paymentMethodData\":{\"tokenizationData\":{\"token\":\"g\\\"t\"}}}")

ClientMerchant(key) ==
    Ref([MerchantKey |-> key, SecretKey |-> "sEc", SuccessRedirect |-> "https://m.ex/ok",
         FailRedirect |-> "", ClientIP |-> Nil, TermsURL |-> Ref("https://e.co/3")])

ClientData ==
    [PaymentID |-> Ref("o-1"), Amount |-> FromInt(100), Currency |-> "UAH",
     Description |-> "pay", SplitRules |-> <<>>, Metadata |-> <<>>,
     SubmerchantID |-> Ref(" 123456789 "), PlatonTransID |-> Ref("t-1"),
     PlatonPaymentID |-> Nil]

ClientMethod(token, pan, apple, google) ==
    Ref([Card |-> IF token = Nil /\ pan = Nil THEN Nil ELSE Ref([Token |-> token, Pan |-> pan]),
         AppleContainer |-> apple, GoogleToken |-> google])

ClientPerson ==
    Ref([FirstName |-> Nil, LastName |-> Nil, Email |-> Ref("p@e.co"),
         Phone |-> Ref("380631234567")])

TokenMethod == ClientMethod(Ref("tok1"), Nil, Nil, Nil)

ClientMethods ==
    { Nil, TokenMethod,
      ClientMethod(Nil, Ref("4111111111111111"), Nil, Nil),
      ClientMethod(Ref(""), Ref("4111111111111111"), Nil, Nil),
      ClientMethod(Ref("tok1"), Nil, Ref(AppleContainerText), Ref(GoogleTokenText)),
      ClientMethod(Ref("tok1"), Nil, Nil, Ref(GoogleTokenText)),
      ClientMethod(Ref("tok1"), Nil, Ref(""), Ref(GoogleTokenText)),
      ClientMethod(Nil, Nil, Ref(AppleContainerText), Nil),
      ClientMethod(Ref("tok1"), Nil, Ref("e30"), Nil),
      ClientMethod(Ref("tok1"), Nil, Nil, Ref("")) }

ClientDatas ==
    { Nil, Ref(ClientData),
      Ref([ClientData EXCEPT !.Amount = <<>>]),
      Ref([ClientData EXCEPT !.PaymentID = Ref(" ")]),
      Ref([ClientData EXCEPT !.PlatonTransID = Nil, !.PlatonPaymentID = Ref(77)]),
      Ref([ClientData EXCEPT !.PlatonTransID = Ref(""), !.SubmerchantID = Ref(" ")]),
      Ref([ClientData EXCEPT !.Metadata = [platon_flow |-> " A2C "]]),
      Ref([ClientData EXCEPT !.Metadata = [immediately |-> " yes "]]),
      Ref([ClientData EXCEPT !.SplitRules = <<Rule("A", FromInt(100))>>]),
      Ref([ClientData EXCEPT !.SplitRules = <<Rule("A", FromInt(70))>>]),
      Ref([ClientData EXCEPT !.Description = ""]) }

ClientRequests ==
    {Nil}
    \cup {Ref([Merchant |-> ClientMerchant("CLIENT_KEY"), PaymentData |-> Ref(ClientData),
               PaymentMethod |-> method, PersonalData |-> ClientPerson]) :
            method \in ClientMethods}
    \cup {Ref([Merchant |-> ClientMerchant("CLIENT_KEY"), PaymentData |-> data,
               PaymentMethod |-> TokenMethod, PersonalData |-> person]) :
            data \in ClientDatas, person \in {Nil, ClientPerson}}
    \cup {Ref([Merchant |-> merchant, PaymentData |-> Ref(ClientData),
               PaymentMethod |-> TokenMethod, PersonalData |-> ClientPerson]) :
            merchant \in {Nil, ClientMerchant("")}}

ClientOutcomes ==
    {[kind |-> "error", status |-> 0, text |-> "", pad |-> 0],
     [kind |-> "response", status |-> 502, text |-> "gateway down", pad |-> 0]}
    \cup {[kind |-> "response", status |-> 200, text |-> text, pad |-> 0] :
            text \in {AcceptedText, DeclinedText,
                      "{\"status\":\"SUCCESS\",\"action\":\"GET_SUBMERCHANT\",\"submerchant_id\":\"123456789\",\"submerchant_id_status\":\"LOCKED\",\"hash\":\"abc123\"}",
                      "{\"status\":\"SUCCESS\",\"submerchant_id_status\":\"ENABLED\"}",
                      "{\"status\":\"SUCCESS\",\"response\":{\"submerchant_id_status\":\"enabled\"}}",
                      "{\"status\":\"SUCCESS\",\"submerchant_id_status\":\"DISABLED\"}",
                      "{\"status\":\"FAILED\"}"}}

\* what resolveClientServerVerificationURL comes to: a purchase URL or none
VerificationResults ==
    {[val |-> Ref("https://secure.platononline.com/payment/purchase?token=abc"), err |-> ""],
     [val |-> Nil, err |-> "verification request failed"],
     [val |-> Nil, err |-> "verification purchase URL was not returned (status=200)"]}

InitClient ==
    /\ call = Nil
    /\ net = <<>>
    /\ dry = <<>>
    /\ res = NoResult
    /\ args = <<>>
    /\ budget = MaxClientCalls
    /\ r = NewRequest("")
    /\ ret = NoCall
    /\ signed = FALSE
    /\ out = Nil
    /\ req = NoRequest
    /\ amt = <<>>
    /\ form = Nil

\* a method, were the dry-run option looked at before the request is checked
ClientBeginDryFirst(op) ==
    /\ call = Nil
    /\ budget > 0
    /\ budget' = budget - 1
    /\ \E request \in ClientRequests, dryRun \in BOOLEAN :
          \E b \in {ClientBuild(op, request)} :
              /\ args' = [op |-> op, request |-> request, dryRun |-> dryRun,
                          outcome |-> NoOutcome]
              /\ IF b.err # "" /\ ~dryRun
                 THEN /\ res' = [op |-> op, err |-> b.err,
                                 val |-> IF op = "SubmerchantAvailableForSplit" THEN FALSE
                                         ELSE Nil]
                      /\ UNCHANGED <<call, net, dry>>
                 ELSE IF dryRun
                 THEN /\ dry' = Append(dry, [endpoint |-> b.url, payload |-> b.payload,
                                             call |-> MaxClientCalls - budget])
                      /\ res' = [op |-> op, err |-> "",
                                 val |-> IF op = "SubmerchantAvailableForSplit" THEN FALSE
                                         ELSE Nil]
                      /\ UNCHANGED <<call, net>>
                 ELSE IF op = "Verification"
                 THEN /\ net' = Append(net, [url |-> b.url, form |-> b.payload,
                                             call |-> MaxClientCalls - budget])
                      /\ \E v \in VerificationResults :
                            res' = [op |-> op, err |-> v.err, val |-> v.val]
                      /\ UNCHANGED <<call, dry>>
                 ELSE \E p \in {sendPrepare(b.payload)} :
                         /\ IF p.err # ""
                            THEN /\ \E c \in {ClientReturn(op, [resp |-> Nil, err |-> p.err])} :
                                       res' = [op |-> op, err |-> c.err, val |-> c.val]
                                 /\ call' = Nil
                            ELSE /\ res' = NoResult
                                 /\ call' = Ref([op |-> op, request |-> b.payload,
                                                 url |-> b.url, client |-> TRUE,
                                                 form |-> p.form])
                         /\ UNCHANGED <<net, dry>>
    /\ UNCHANGED <<r, ret, signed, out, req, amt, form>>

\* the method op(request, runOpts...) up to c.client.Do, runOpts DryRun(handler) or nothing
ClientBegin(op) ==
    /\ call = Nil
    /\ budget > 0
    /\ budget' = budget - 1
    /\ \E request \in ClientRequests, dryRun \in BOOLEAN :
          \E b \in {ClientBuild(op, request)} :
              /\ args' = [op |-> op, request |-> request, dryRun |-> dryRun,
                          outcome |-> NoOutcome]
              /\ IF b.err # ""
                 THEN /\ res' = [op |-> op, err |-> b.err,
                                 val |-> IF op = "SubmerchantAvailableForSplit" THEN FALSE
                                         ELSE Nil]
                      /\ UNCHANGED <<call, net, dry>>
                 ELSE IF dryRun
                 THEN /\ dry' = Append(dry, [endpoint |-> b.url, payload |-> b.payload,
                                             call |-> MaxClientCalls - budget])
                      /\ res' = [op |-> op, err |-> "",
                                 val |-> IF op = "SubmerchantAvailableForSplit" THEN FALSE
                                         ELSE Nil]
                      /\ UNCHANGED <<call, net>>
                 ELSE IF op = "Verification"
                 THEN /\ net' = Append(net, [url |-> b.url, form |-> b.payload,
                                             call |-> MaxClientCalls - budget])
                      /\ \E v \in VerificationResults :
                            res' = [op |-> op, err |-> v.err, val |-> v.val]
                      /\ UNCHANGED <<call, dry>>
                 ELSE \E p \in {sendPrepare(b.payload)} :
                         /\ IF p.err # ""
                            THEN /\ \E c \in {ClientReturn(op, [resp |-> Nil, err |-> p.err])} :
                                       res' = [op |-> op, err |-> c.err, val |-> c.val]
                                 /\ call' = Nil
                            ELSE /\ res' = NoResult
                                 /\ call' = Ref([op |-> op, request |-> b.payload,
                                                 url |-> b.url, client |-> TRUE,
                                                 form |-> p.form])
                         /\ UNCHANGED <<net, dry>>
    /\ UNCHANGED <<r, ret, signed, out, req, amt, form>>

ClientPayment == ClientBegin("Payment")

ClientHold == ClientBegin("Hold")

ClientCapture == ClientBegin("Capture")

ClientRefund == ClientBegin("Refund")

ClientStatus == ClientBegin("Status")

ClientCredit == ClientBegin("Credit")

ClientVerification == ClientBegin("Verification")

ClientSubmerchantAvailableForSplit == ClientBegin("SubmerchantAvailableForSplit")

\* a method from c.client.Do on: the one POST of Api, and what the method makes of the answer
ClientSend ==
    /\ call # Nil
    /\ Deref(call).op \in ClientOps
    /\ net' = Append(net, [url |-> Deref(call).url, form |-> Deref(call).form,
                           call |-> MaxClientCalls - budget - 1])
    /\ \E outcome \in ClientOutcomes :
          /\ args' = [args EXCEPT !.outcome = outcome]
          /\ \E c \in {ClientReturn(Deref(call).op, sendReceive(outcome))} :
                res' = [op |-> Deref(call).op, err |-> c.err, val |-> c.val]
    /\ call' = Nil
    /\ UNCHANGED <<r, ret, signed, budget, out, req, amt, form, dry>>

NextClient ==
    \/ ClientPayment \/ ClientHold \/ ClientCapture \/ ClientRefund \/ ClientStatus
    \/ ClientCredit \/ ClientVerification \/ ClientSubmerchantAvailableForSplit
    \/ ClientSend

SpecClient == InitClient /\ [][NextClient]_vars

\* a call of SubmerchantAvailableForSplit that was not a dry run has returned on a 200 answer
SubmerchantAnswered ==
    /\ res.op = "SubmerchantAvailableForSplit" /\ call = Nil
    /\ ~args.dryRun
    /\ args.outcome.kind = "response" /\ args.outcome.status = 200

\* the submerchant_id_status of the answer: [val, ok]
ReportedStatus == SubmerchantIDStatus(UnmarshalJSONResponse(args.outcome.text).resp)

\* C24: SubmerchantAvailableForSplit returns true exactly when the gateway reports the
\* submerchant_id_status ENABLED, returns false with no error for LOCKED, and returns an
\* error for an answer without a submerchant status (such as status FAILED).
C24_SplitAvailability ==
    SubmerchantAnswered =>
        /\ (res.val = TRUE) <=> (ReportedStatus.ok /\ EqualFold(ReportedStatus.val, "ENABLED"))
        /\ (ReportedStatus.ok /\ ReportedStatus.val = "LOCKED")
              => (res.val = FALSE /\ res.err = "")
        /\ ~ReportedStatus.ok => res.err # ""

\* C24 without LOCKED: true exactly for ENABLED, and an error for an answer without a status
C24_EnabledAndMissing ==
    SubmerchantAnswered =>
        /\ (res.val = TRUE) <=> (ReportedStatus.ok /\ EqualFold(ReportedStatus.val, "ENABLED"))
        /\ ~ReportedStatus.ok => res.err # ""

\* the answer said LOCKED
C24_Locked ==
    /\ SubmerchantAnswered
    /\ ReportedStatus.ok /\ ReportedStatus.val = "LOCKED"

\* a call of Payment or Hold on a request has got past buildIAPaymentRequest or has returned
PaymentCalled ==
    /\ args # <<>> /\ args.op \in {"Payment", "Hold"}
    /\ args.request # Nil

\* buildIAPaymentRequest built a request: it went to the dry-run handler or to Api
PaymentBuilt == PaymentCalled /\ (call # Nil \/ (args.dryRun /\ res.err = ""))

\* the request built and its endpoint
BuiltPayload == IF call # Nil THEN Deref(Deref(call).request) ELSE Deref(dry[Len(dry)].payload)

BuiltEndpoint == IF call # Nil THEN Deref(call).url ELSE dry[Len(dry)].endpoint

\* the payment methods the request of the call carries
MethodOf == Deref(args.request).PaymentMethod

CarriesApple == MethodOf # Nil /\ ~Empty(Deref(MethodOf).AppleContainer)

CarriesGoogle == MethodOf # Nil /\ Deref(MethodOf).GoogleToken # Nil

CarriesCardToken ==
    /\ MethodOf # Nil /\ Deref(MethodOf).Card # Nil
    /\ ~Empty(Deref(Deref(MethodOf).Card).Token)

CarriesPAN ==
    /\ MethodOf # Nil /\ Deref(MethodOf).Card # Nil
    /\ ~Empty(Deref(Deref(MethodOf).Card).Pan)

\* the built request is of the method with this action, hash kind and endpoint
PairedWith(action, hashKind, path) ==
    /\ BuiltPayload.Action = action
    /\ BuiltPayload.HashType = hashKind
    /\ BuiltEndpoint = "https://secure.platononline.com" \o path

\* the number of the call that args is of, and that it reached neither the handler nor the
\* network
ThisCall == MaxClientCalls - budget - 1

NothingSent ==
    /\ \A i \in 1..Len(dry) : dry[i].call # ThisCall
    /\ \A i \in 1..Len(net) : net[i].call # ThisCall

C28_WitnessToken ==
    /\ PaymentBuilt
    /\ ~CarriesApple /\ ~CarriesGoogle /\ CarriesCardToken
    /\ BuiltPayload.Action = "SALE"

\* the methods the dry-run claim is about
DryRunOps == {"Payment", "Hold", "Capture", "Refund", "Status", "Credit", "Verification"}

\* the endpoint the method would post to
TargetEndpoint(op, request) ==
    "https://secure.platononline.com" \o
    CASE op \in {"Payment", "Hold"} ->
            (IF ~Empty(Deref(Deref(request).PaymentMethod).AppleContainer)
                \/ Deref(Deref(request).PaymentMethod).GoogleToken # Nil
             THEN "/post/" ELSE "/post-unq/")
      [] op \in {"Capture", "Refund"} -> "/post-unq/"
      [] op = "Status" ->
            (IF isA2CStatusRequest(Deref(request)) THEN "/p2p-unq/" ELSE "/post-unq/")
      [] op = "Credit" -> "/p2p-unq/"
      [] op = "Verification" -> "/payment/auth"

\* a step that is a call of one of the methods with the DryRun option: nothing is posted, the
\* call is over, the result is nil, and the handler is called once with the endpoint and the
\* request built if the method returns no error, and not at all if it returns one
DryRunStep ==
    (budget' < budget /\ args'.op \in DryRunOps /\ args'.dryRun) =>
        /\ net' = net
        /\ call' = Nil
        /\ res'.op = args'.op /\ res'.val = Nil
        /\ res'.err = ClientBuild(args'.op, args'.request).err
        /\ IF res'.err = ""
           THEN /\ Len(dry') = Len(dry) + 1
                /\ SubSeq(dry', 1, Len(dry)) = dry
                /\ dry'[Len(dry')].endpoint = TargetEndpoint(args'.op, args'.request)
                /\ dry'[Len(dry')].payload = ClientBuild(args'.op, args'.request).payload
                /\ dry'[Len(dry')].payload # Nil
           ELSE dry' = dry

\* no POST is of a call that had the DryRun option, and the handler was called at most once
\* for each call
DryRunsOffline ==
    /\ \A i \in 1..Len(net) : \A j \in 1..Len(dry) : net[i].call # dry[j].call
    /\ \A i, j \in 1..Len(dry) : dry[i].call = dry[j].call => i = j
    /\ (args # <<>> /\ args.dryRun) => call = Nil

\* C27: with the DryRun option, Payment, Hold, Capture, Refund, Status, Credit and
\* Verification never call the network transport: once the request-level checks pass they
\* call the dry-run handler exactly once with the target endpoint and the built payload and
\* return a nil result and a nil error; when a request-level check fails they return that
\* error and do not call the handler.
C27_DryRun == [][DryRunStep]_vars /\ []DryRunsOffline

\* a dry run of Credit has handed its request and the payout endpoint to the handler
C27_Witness ==
    /\ args # <<>> /\ args.op = "Credit" /\ args.dryRun
    /\ res.op = "Credit" /\ res.err = "" /\ res.val = Nil
    /\ Len(dry) = 1 /\ dry[1].endpoint = ApiP2PUnqURL
    /\ Deref(dry[1].payload).Action = "CREDIT2CARD"
    /\ net = <<>>

\* a dry run of Capture has failed a request check and left the handler alone
C27_WitnessRejected ==
    /\ args # <<>> /\ args.op = "Capture" /\ args.dryRun
    /\ res.op = "Capture" /\ res.err # ""
    /\ dry = <<>> /\ net = <<>>

\* each method has posted when called without the option
Posted(op) == args # <<>> /\ args.op = op /\ ~args.dryRun /\ Len(net) = 1

\* SignAndPrepare has just been called on a request of a kind that requires an order id,
\* which the call would accept with the order id o-1
OrderIDKinds ==
    {"verification", "card_payment", "card_token_payment", "apple_pay", "google_pay",
     "recurring", "get_trans_status_by_order", "credit2card", "credit2card_token"}

OrderIDCall ==
    /\ ret.op = "SignAndPrepare"
    /\ ret.arg.HashType \in OrderIDKinds
    /\ ret.arg.OrderID # Nil
    /\ \A order \in Orders(ret.arg.SplitRules) :
          SignAndPrepare(WithOrderID(ret.arg, Ref("o-1")), order).err = ""

OrderIDLen == Len(Deref(ret.arg.OrderID))

\* the longest order id of each kind
OrderIDLimit(kind) ==
    IF kind \in {"verification", "card_payment", "card_token_payment", "recurring"}
    THEN 32 ELSE 255

RECURSIVE ToLower(_)
ToLower(s) ==
    IF s = "" THEN ""
    ELSE (IF \E i \in 1..26 : UpperLetters[i] = Head(s)
          THEN LowerLetters[CHOOSE i \in 1..26 : UpperLetters[i] = Head(s)]
          ELSE Head(s)) \o ToLower(Tail(s))

\* the fields of a request that the signatures read
SignedFields ==
    {"PayerEmail", "HashEmail", "CardToken", "PaymentToken", "OrderID", "TransId",
     "SubmerchantID"}

\* q with the fields in fields, and the secret if withSecret, rewritten by Recase
RecaseRequest(q, fields, withSecret, Recase(_)) ==
    [f \in DOMAIN q |->
        IF f \in fields /\ q[f] # Nil THEN Ref(Recase(Deref(q[f])))
        ELSE IF f = "Auth" /\ withSecret /\ q[f] # Nil
        THEN Ref([Key |-> Deref(q[f]).Key, Secret |-> Recase(Deref(q[f]).Secret)])
        ELSE q[f]]

\* the requests signed next to q: q in other letter case, and q with another secret or token
OtherRequests(q) ==
    {RecaseRequest(q, SignedFields, TRUE, ToUpper), RecaseRequest(q, SignedFields, TRUE, ToLower),
     RecaseRequest(q, {}, TRUE, ToUpper)}
    \cup {RecaseRequest(q, {f}, FALSE, ToUpper) : f \in SignedFields}
    \cup {WithAuth(q, Ref([Key |-> "k", Secret |-> "bad"])), WithCardToken(q, Ref("tok2")),
          WithOrderID(q, Ref("o-2"))}

CaseSecrets == {"sEc", "SEC", "sec", " Sec ", "bad"}

CaseForms ==
    {Ref(FormOf(order, status, "411111****1111", email, "")) :
        order \in {"o-1", "O-1"}, status \in {"SALE", "sale", "REFUND"},
        email \in {"p@e.co", "P@E.co"}}

InitCase ==
    /\ r \in TestRequests
    /\ form = Ref(FormOf("o-1", "SALE", "411111****1111", "p@e.co", ""))
    /\ args = <<>>
    /\ res = NoResult
    /\ ret = NoCall
    /\ signed = FALSE
    /\ budget = 0
    /\ out = Nil
    /\ req = NoRequest
    /\ amt = <<>>
    /\ call = Nil
    /\ net = <<>>
    /\ dry = <<>>

\* r.SignAndPrepare() and other.SignAndPrepare(), on copies
SignBoth ==
    /\ res.op = NoResult.op
    /\ \E other \in OtherRequests(r), order \in Orders(r.SplitRules) :
          /\ args' = [other |-> other]
          /\ \E a \in {SignAndPrepare(r, order)}, b \in {SignAndPrepare(other, order)} :
                res' = [op |-> "SignAndPrepare", err |-> a.err,
                        val |-> [hash |-> a.r.Hash, otherHash |-> b.r.Hash,
                                 otherErr |-> b.err]]
    /\ UNCHANGED <<r, ret, signed, budget, out, req, amt, form, call, net, dry>>

\* form.ExpectedSign(secret, "") and other.ExpectedSign(otherSecret, "")
ExpectedSignBoth ==
    /\ res.op = NoResult.op
    /\ \E secret \in CaseSecrets, otherSecret \in CaseSecrets, other \in CaseForms :
          /\ args' = [secret |-> secret, otherSecret |-> otherSecret, other |-> other]
          /\ \E a \in {ExpectedSign(form, secret, "")},
                b \in {ExpectedSign(other, otherSecret, "")} :
                res' = [op |-> "ExpectedSign", err |-> a.err,
                        val |-> [hash |-> a.val, otherHash |-> b.val, otherErr |-> b.err]]
    /\ UNCHANGED <<r, ret, signed, budget, out, req, amt, form, call, net, dry>>

\* signClientServerVerification under secret and under otherSecret
SignFormBoth ==
    /\ res.op = NoResult.op
    /\ \E secret \in CaseSecrets, otherSecret \in CaseSecrets :
          /\ args' = [secret |-> secret, otherSecret |-> otherSecret]
          /\ res' = [op |-> "signClientServerVerification", err |-> "",
                     val |-> [hash |-> signClientServerVerification(
                                           "CLIENT_KEY", "CC", "e30=", "https://m.ex/ok", secret),
                              otherHash |-> signClientServerVerification(
                                           "CLIENT_KEY", "CC", "e30=", "https://m.ex/ok",
                                           otherSecret),
                              otherErr |-> ""]]
    /\ UNCHANGED <<r, ret, signed, budget, out, req, amt, form, call, net, dry>>

\* the gateway signs the callback with its copy of the secret
GatewaySigns ==
    /\ res.op = NoResult.op
    /\ Deref(form).Sign = ""
    /\ \E secret \in CaseSecrets :
          /\ form' = Ref([Deref(form) EXCEPT !.Sign = ExpectedSign(form, secret, "").val])
          /\ args' = [signer |-> secret]
          /\ res' = [op |-> "sign", err |-> "", val |-> secret]
    /\ UNCHANGED <<r, ret, signed, budget, out, req, amt, call, net, dry>>

\* form.VerifySign(secret, "") on the callback the gateway signed
VerifyWith ==
    /\ res.op = "sign"
    /\ \E secret \in CaseSecrets :
          /\ args' = [signer |-> args.signer, secret |-> secret]
          /\ \E v \in {VerifySign(form, secret, "")} :
                res' = [op |-> "VerifySign", err |-> v.err, val |-> v.ok]
    /\ UNCHANGED <<r, ret, signed, budget, out, req, amt, form, call, net, dry>>

NextCase == SignBoth \/ ExpectedSignBoth \/ SignFormBoth \/ GatewaySigns \/ VerifyWith

SpecCase == InitCase /\ [][NextCase]_vars

\* the two requests differ in nothing but the letter case of the fields that are signed
OnlyCaseDiffers(a, b) ==
    \A f \in DOMAIN a :
        IF f \in SignedFields
        THEN (a[f] = Nil) = (b[f] = Nil) /\ (a[f] # Nil => EqualFold(Deref(a[f]), Deref(b[f])))
        ELSE IF f = "Auth"
        THEN /\ Deref(a[f]).Key = Deref(b[f]).Key
             /\ EqualFold(Deref(a[f]).Secret, Deref(b[f]).Secret)
        ELSE a[f] = b[f]

\* the two callbacks differ in nothing but the letter case of order, status and email
OnlyCaseDiffersForm(a, b) ==
    \A f \in DOMAIN a :
        IF f \in {"Order", "Status", "Email"} THEN EqualFold(a[f], b[f]) ELSE a[f] = b[f]

\* the two inputs of the last call differ in letter case only
CasePair ==
    CASE res.op = "SignAndPrepare" -> OnlyCaseDiffers(r, args.other)
      [] res.op = "ExpectedSign" ->
            /\ EqualFold(TrimSpace(args.secret), TrimSpace(args.otherSecret))
            /\ OnlyCaseDiffersForm(Deref(form), Deref(args.other))
      [] res.op = "signClientServerVerification" -> EqualFold(args.secret, args.otherSecret)
      [] OTHER -> FALSE

\* C30: the whole canonical string, secret included, is upper-cased before hashing, so the
\* digest does not distinguish letter case in any input: two secrets (or emails, tokens, order
\* ids, statuses) that differ only in letter case give the same outbound hash and the same
\* ExpectedSign, and VerifySign returns true for a callback signed with a secret that
\* differs from the merchant's only in letter case.
C30_CaseBlindDigest ==
    /\ (CasePair /\ res.err = "") =>
          /\ res.val.otherErr = ""
          /\ res.val.otherHash = res.val.hash
    /\ (res.op = "VerifySign" /\ EqualFold(TrimSpace(args.signer), TrimSpace(args.secret)))
          => (res.err = "" /\ res.val = TRUE)

\* a callback signed under sEc was verified under SEC
C30_Witness ==
    /\ res.op = "VerifySign"
    /\ args.signer = "sEc" /\ args.secret = "SEC"
    /\ res.val = TRUE

\* a token payment and its copy with the secret in upper case got the same hash
C30_WitnessOutbound ==
    /\ res.op = "SignAndPrepare" /\ res.err = ""
    /\ r.HashType = "card_token_payment"
    /\ CasePair
    /\ Deref(args.other.Auth).Secret = "SEC" /\ Deref(r.Auth).Secret = "sEc"
    /\ res.val.hash = res.val.otherHash /\ res.val.hash # ""

\* two inputs that differ in more than letter case got different digests
C30_WitnessDistinct ==
    /\ res.op \in {"SignAndPrepare", "ExpectedSign", "signClientServerVerification"}
    /\ ~CasePair
    /\ res.err = "" /\ res.val.otherErr = ""
    /\ res.val.hash # res.val.otherHash

(***************************************************************************)
(* The two callers.  Two goroutines each hold a request of their own and   *)
(* run SignAndPrepare and then ToMap on it; a step is one statement of     *)
(* SignAndPrepare.  r[c] is the request of caller c as it is in memory,    *)
(* args[c] the request as it was handed over, call[c] the caller's frame   *)
(* (its position, the local sign and err, the order in which the split     *)
(* rules were ranged over, and whether a step ran while the other caller   *)
(* was inside its call), out[c] the map it got, and res the objects each   *)
(* caller has read and written.  The objects are the two requests, the     *)
(* Auth the requests may share and the package variable orderAmountRe.     *)
(* The log lines of the signature functions are not kept.                  *)
(***************************************************************************)
Callers == 1..2

Other(c) == 3 - c

\* the requests the callers sign: those of the tests, one without a card token and one
\* without an order id
ConcRequests ==
    TestRequests
    \cup {WithCardToken(TestRequest("card_token_payment", "1.00"), Nil),
          WithOrderID(TestRequest("card_payment", "1.00"), Nil)}

RequestObj(c) == <<"Request", c>>

AuthObj == <<"Auth", 0>>

OrderAmountReObj == <<"orderAmountRe", 0>>

NewFrame(q) ==
    [pc |-> "generate", sign |-> "", err |-> "",
     order |-> CHOOSE o \in Orders(q.SplitRules) : TRUE, mixed |-> FALSE]

InitConc ==
    /\ r \in [Callers -> ConcRequests]
    /\ args = r
    /\ call = [c \in Callers |-> NewFrame(r[c])]
    /\ out = [c \in Callers |-> Nil]
    /\ res = [reads |-> [c \in Callers |-> {}], writes |-> [c \in Callers |-> {}]]
    /\ ret = NoCall
    /\ signed = FALSE
    /\ budget = 0
    /\ req = NoRequest
    /\ amt = <<>>
    /\ form = Nil
    /\ net = <<>>
    /\ dry = <<>>

\* the other caller is inside SignAndPrepare or between it and ToMap
InCall(c) == call[c].pc \notin {"generate", "done"}

\* the frame of c after a step that leaves it at pc with sign, err and order
Stepped(c, pc, sign, err, order) ==
    [call EXCEPT ![c] = [pc |-> pc, sign |-> sign, err |-> err, order |-> order,
                         mixed |-> (call[c].mixed \/ InCall(Other(c)))]]

\* res after c has read the objects reads and written the objects writes
Touched(c, reads, writes) ==
    [reads |-> [res.reads EXCEPT ![c] = @ \cup reads],
     writes |-> [res.writes EXCEPT ![c] = @ \cup writes]]

\* r.Hash = sign, written to the request of caller 1 whoever the caller is
StoreHashShared(c) ==
    /\ call[c].pc = "store"
    /\ r' = [r EXCEPT ![1].Hash = call[c].sign]
    /\ call' = Stepped(c, "validateByHashType", call[c].sign, "", call[c].order)
    /\ res' = Touched(c, {}, {RequestObj(1)})
    /\ UNCHANGED <<args, out, ret, signed, budget, req, amt, form, net, dry>>

\* the switch on r.HashType: sign, err = r.generate...Signature()
Generate(c) ==
    /\ call[c].pc = "generate"
    /\ \E g \in {generateByHashType(r[c])} :
          call' = IF HasPrefix(g.err, "unknown hash type")
                  THEN Stepped(c, "ToMap", "", g.err, call[c].order)
                  ELSE IF g.err # ""
                  THEN Stepped(c, "ToMap", "", "signature generation failed: " \o g.err,
                               call[c].order)
                  ELSE Stepped(c, "store", g.sign, "", call[c].order)
    /\ res' = Touched(c, {RequestObj(c), AuthObj}, {})
    /\ UNCHANGED <<r, args, out, ret, signed, budget, req, amt, form, net, dry>>

\* r.Hash = sign
StoreHash(c) ==
    /\ call[c].pc = "store"
    /\ r' = [r EXCEPT ![c].Hash = call[c].sign]
    /\ call' = Stepped(c, "validateByHashType", call[c].sign, "", call[c].order)
    /\ res' = Touched(c, {}, {RequestObj(c)})
    /\ UNCHANGED <<args, out, ret, signed, budget, req, amt, form, net, dry>>

\* r.validateByHashType(), which writes the default flags to r
ValidateByHashType(c) ==
    /\ call[c].pc = "validateByHashType"
    /\ \E order \in Orders(r[c].SplitRules) :
          \E v \in {validateByHashType(r[c], order)} :
             /\ r' = [r EXCEPT ![c] = v.r]
             /\ call' = IF v.err # ""
                        THEN Stepped(c, "ToMap", call[c].sign, v.err, order)
                        ELSE Stepped(c, "validator", call[c].sign, "", order)
    /\ res' = Touched(c, {RequestObj(c), OrderAmountReObj}, {RequestObj(c)})
    /\ UNCHANGED <<args, out, ret, signed, budget, req, amt, form, net, dry>>

\* validator.New().Struct(r) and the return
ValidateStruct(c) ==
    /\ call[c].pc = "validator"
    /\ call' = Stepped(c, "ToMap", call[c].sign,
                       IF validateStruct(r[c]) THEN ""
                       ELSE "internal request validation failed", call[c].order)
    /\ res' = Touched(c, {RequestObj(c)}, {})
    /\ UNCHANGED <<r, args, out, ret, signed, budget, req, amt, form, net, dry>>

\* r.ToMap()
CallToMap(c) ==
    /\ call[c].pc = "ToMap"
    /\ out' = [out EXCEPT ![c] = Ref(ToMap(r[c]))]
    /\ call' = Stepped(c, "done", call[c].sign, call[c].err, call[c].order)
    /\ res' = Touched(c, {RequestObj(c)}, {})
    /\ UNCHANGED <<r, args, ret, signed, budget, req, amt, form, net, dry>>

NextConc ==
    \E c \in Callers :
        \/ Generate(c)
        \/ StoreHash(c)
        \/ ValidateByHashType(c)
        \/ ValidateStruct(c)
        \/ CallToMap(c)

SpecConc == InitConc /\ [][NextConc]_vars

\* SignAndPrepare has returned to caller c
Returned(c) == call[c].pc \in {"ToMap", "done"}

\* what caller c has is what the call gives when it runs alone on the request handed over
AsAlone(c) ==
    \E s \in {SignAndPrepare(args[c], call[c].order)} :
        /\ call[c].err = s.err
        /\ r[c].Hash = s.r.Hash
        /\ r[c] = s.r
        /\ call[c].pc = "done" => out[c] = Ref(ToMap(s.r))

\* no caller has read or written an object the other has written
Apart ==
    \A c \in Callers :
        (res.reads[c] \cup res.writes[c]) \cap res.writes[Other(c)] = {}

C25_WitnessError ==
    /\ call[1].pc = "done" /\ call[1].err # "" /\ call[1].mixed
    /\ call[2].pc = "done" /\ call[2].err = "" /\ call[2].mixed

====
